---- MODULE Spec2Model ----
(***************************************************************************)
(* Model of the @azmath/core content validator (schema/validator.ts) and   *)
(* HTML renderer (renderer/html.ts).                                       *)
(*                                                                         *)
(* JavaScript values are tagged records.  A JavaScript string is a         *)
(* sequence of one-character strings, so that length, startsWith and the   *)
(* per-character escape routine are computed as the code computes them.    *)
(* Numbers are integers.  An object is a function from its own property    *)
(* names to values; a property that is absent reads as undefined.          *)
(***************************************************************************)
EXTENDS Integers, Sequences, FiniteSets, TLC

(***************************************************************************)
(* JavaScript values                                                       *)
(***************************************************************************)
Undef == [k |-> "undefined"]
Null == [k |-> "null"]
Bool(b) == [k |-> "boolean", b |-> b]
Num(n) == [k |-> "number", n |-> n]
Str(s) == [k |-> "string", s |-> s]
Arr(a) == [k |-> "array", a |-> a]
Obj(o) == [k |-> "object", o |-> o]

NoProps == [f \in {} |-> Undef]

\* typeof v
TypeOf(v) ==
  CASE v.k = "undefined" -> "undefined"
    [] v.k = "null" -> "object"
    [] v.k = "boolean" -> "boolean"
    [] v.k = "number" -> "number"
    [] v.k = "string" -> "string"
    [] v.k = "array" -> "object"
    [] v.k = "object" -> "object"

\* ToBoolean(v): the value of !!v
Truthy(v) ==
  CASE v.k = "undefined" -> FALSE
    [] v.k = "null" -> FALSE
    [] v.k = "boolean" -> v.b
    [] v.k = "number" -> v.n # 0
    [] v.k = "string" -> Len(v.s) > 0
    [] v.k = "array" -> TRUE
    [] v.k = "object" -> TRUE

\* Array.isArray(v)
IsArray(v) == v.k = "array"

\* v.f for a value v that is neither null nor undefined: an own property of
\* an object, else undefined (none of the property names the code reads is
\* defined on the String, Number, Boolean, Array or Object prototypes).
Get(v, f) ==
  IF v.k = "object" /\ f \in DOMAIN v.o THEN v.o[f] ELSE Undef

\* a property read v.f raises a TypeError when v is null or undefined
CanRead(v) == v.k \notin {"undefined", "null"}

\* v === Str(s)
IsStr(v, s) == v.k = "string" /\ v.s = s

\* [...].includes(v) for a list of string literals
Includes(list, v) == \E i \in 1..Len(list) : IsStr(v, list[i])

\* s.startsWith(prefix)
StartsWith(s, prefix) ==
  Len(s) >= Len(prefix) /\ SubSeq(s, 1, Len(prefix)) = prefix

\* c repeated n times ("a".repeat(n))
Rep(c, n) == [i \in 1..n |-> c]

\* the characters of a JavaScript string written as one TLA+ string
RECURSIVE JoinChars(_)
JoinChars(s) ==
  IF Len(s) = 0 THEN ""
  ELSE IF Len(s) = 1 THEN s[1]
  ELSE LET h == Len(s) \div 2
       IN JoinChars(SubSeq(s, 1, h)) \o JoinChars(SubSeq(s, h + 1, Len(s)))

(***************************************************************************)
(* String literals of the source, as character sequences                   *)
(***************************************************************************)
S_problem == <<"p", "r", "o", "b", "l", "e", "m">>
S_lesson == <<"l", "e", "s", "s", "o", "n">>
S_paragraph == <<"p", "a", "r", "a", "g", "r", "a", "p", "h">>
S_header == <<"h", "e", "a", "d", "e", "r">>
S_list == <<"l", "i", "s", "t">>
S_quote == <<"q", "u", "o", "t", "e">>
S_math == <<"m", "a", "t", "h">>
S_image == <<"i", "m", "a", "g", "e">>
S_Algebra == <<"A", "l", "g", "e", "b", "r", "a">>
S_Geometry == <<"G", "e", "o", "m", "e", "t", "r", "y">>
S_NumberTheory == <<"N", "u", "m", "b", "e", "r", " ", "T", "h", "e", "o", "r", "y">>
S_Combinatorics == <<"C", "o", "m", "b", "i", "n", "a", "t", "o", "r", "i", "c", "s">>
S_Calculus == <<"C", "a", "l", "c", "u", "l", "u", "s">>
S_General == <<"G", "e", "n", "e", "r", "a", "l">>
S_Easy == <<"E", "a", "s", "y">>
S_Medium == <<"M", "e", "d", "i", "u", "m">>
S_Hard == <<"H", "a", "r", "d">>
S_center == <<"c", "e", "n", "t", "e", "r">>
S_floatLeft == <<"f", "l", "o", "a", "t", "-", "l", "e", "f", "t">>
S_floatRight == <<"f", "l", "o", "a", "t", "-", "r", "i", "g", "h", "t">>
S_small == <<"s", "m", "a", "l", "l">>
S_medium == <<"m", "e", "d", "i", "u", "m">>
S_large == <<"l", "a", "r", "g", "e">>
S_full == <<"f", "u", "l", "l">>
S_ordered == <<"o", "r", "d", "e", "r", "e", "d">>
S_unordered == <<"u", "n", "o", "r", "d", "e", "r", "e", "d">>
S_slash == <<"/">>
S_dataColon == <<"d", "a", "t", "a", ":">>

(***************************************************************************)
(* ToString, as applied by a template literal `${v}`.  An object is        *)
(* converted by OrdinaryToPrimitive: its toString and then its valueOf are *)
(* called if callable.  No JSON value is callable, so an object with an    *)
(* own "toString" property falls through to valueOf, which (own and not    *)
(* callable, or inherited and returning the object) yields no primitive:   *)
(* the conversion raises a TypeError.  An array is joined with ",", each   *)
(* element converted in turn (null and undefined as the empty string).     *)
(* The result is [thr |-> a TypeError was raised, s |-> the string].       *)
(***************************************************************************)
RECURSIVE ToStr(_)
RECURSIVE JoinFrom(_, _)
JoinFrom(a, i) ==
  IF i > Len(a) THEN [thr |-> FALSE, s |-> ""]
  ELSE LET e == IF a[i].k \in {"undefined", "null"}
                THEN [thr |-> FALSE, s |-> ""] ELSE ToStr(a[i])
           r == JoinFrom(a, i + 1)
       IN IF e.thr \/ r.thr THEN [thr |-> TRUE, s |-> ""]
          ELSE [thr |-> FALSE,
                s |-> e.s \o (IF i < Len(a) THEN "," ELSE "") \o r.s]

ToStr(v) ==
  CASE v.k = "undefined" -> [thr |-> FALSE, s |-> "undefined"]
    [] v.k = "null" -> [thr |-> FALSE, s |-> "null"]
    [] v.k = "boolean" -> [thr |-> FALSE, s |-> IF v.b THEN "true" ELSE "false"]
    [] v.k = "number" -> [thr |-> FALSE, s |-> ToString(v.n)]
    [] v.k = "string" -> [thr |-> FALSE, s |-> JoinChars(v.s)]
    [] v.k = "array" -> JoinFrom(v.a, 1)
    [] v.k = "object" ->
         IF "toString" \in DOMAIN v.o THEN [thr |-> TRUE, s |-> ""]
         ELSE [thr |-> FALSE, s |-> "[object Object]"]

(***************************************************************************)
(* new URL(s) without a base: succeeds when s begins with a scheme (a      *)
(* letter, then letters, digits, "+", "-", "."), followed by ":"; for a    *)
(* special scheme other than file the host that follows the slashes must   *)
(* not be empty.  (The strings of the model contain no character that is   *)
(* forbidden in a host, and no port.)                                      *)
(***************************************************************************)
Letters ==
  {"a", "b", "c", "d", "e", "f", "g", "h", "i", "j", "k", "l", "m", "n", "o",
   "p", "q", "r", "s", "t", "u", "v", "w", "x", "y", "z",
   "A", "B", "C", "D", "E", "F", "G", "H", "I", "J", "K", "L", "M", "N", "O",
   "P", "Q", "R", "S", "T", "U", "V", "W", "X", "Y", "Z"}
Digits == {"0", "1", "2", "3", "4", "5", "6", "7", "8", "9"}
SchemeChars == Letters \cup Digits \cup {"+", "-", "."}
SpecialSchemes ==
  {<<"h", "t", "t", "p">>, <<"h", "t", "t", "p", "s">>, <<"f", "t", "p">>,
   <<"w", "s">>, <<"w", "s", "s">>}

RECURSIVE SkipSlashes(_)
SkipSlashes(s) ==
  IF s # <<>> /\ Head(s) \in {"/", "\\"} THEN SkipSlashes(Tail(s)) ELSE s

URLParses(s) ==
  \E i \in 2..Len(s) :
    /\ s[i] = ":"
    /\ s[1] \in Letters
    /\ \A j \in 2..(i - 1) : s[j] \in SchemeChars
    /\ SubSeq(s, 1, i - 1) \in SpecialSchemes
         => SkipSlashes(SubSeq(s, i + 1, Len(s))) # <<>>

(***************************************************************************)
(* ContentValidator (schema/validator.ts).  The accumulator acc is         *)
(* [thr |-> an exception is propagating, errs |-> this.errors]; once an    *)
(* exception propagates no further statement runs.                         *)
(***************************************************************************)
TITLE_MAX == 200
SOLUTION_TITLE_MAX == 100
TAGS_MAX == 10
TAG_LEN_MAX == 50
LEVEL_MIN == 1
LEVEL_MAX == 6

\* this.errors.push({ path, message, code })
addError(acc, path, message, code) ==
  IF acc.thr THEN acc
  ELSE [acc EXCEPT !.errs =
          Append(@, [path |-> path, message |-> message, code |-> code])]

\* an exception raised while acc is the accumulator
Raise(acc) == [acc EXCEPT !.thr = TRUE]

\* the index path with the one-based index
IndexPath_oneBased(path, i) == path \o "[" \o ToString(i) \o "]"

\* `${path}[${index}]` for the zero-based index of the i-th element
IndexPath(path, i) == path \o "[" \o ToString(i - 1) \o "]"

isValidBlockType(type) ==
  Includes(<<S_paragraph, S_header, S_list, S_quote, S_math, S_image>>, type)

isValidContentType(type) == IsStr(type, S_problem) \/ IsStr(type, S_lesson)

isValidCategory(category) ==
  Includes(<<S_Algebra, S_Geometry, S_NumberTheory, S_Combinatorics,
             S_Calculus, S_General>>, category)

isValidDifficulty(difficulty) ==
  Includes(<<S_Easy, S_Medium, S_Hard>>, difficulty)

isValidImageAlignment(alignment) ==
  Includes(<<S_center, S_floatLeft, S_floatRight>>, alignment)

isValidImageSize(size) ==
  Includes(<<S_small, S_medium, S_large, S_full>>, size)

\* the loop over the tags without the check of a tag's length
RECURSIVE validateTagsFrom_noLengthCheck(_, _, _, _)
validateTagsFrom_noLengthCheck(tags, path, i, acc) ==
  IF i > Len(tags) THEN acc
  ELSE validateTagsFrom_noLengthCheck(tags, path, i + 1,
         IF TypeOf(tags[i]) # "string"
         THEN addError(acc, IndexPath(path \o ".tags", i),
                       "Tag must be a string", "INVALID_TYPE")
         ELSE acc)

\* metadata.tags.forEach(...), from element i on
RECURSIVE validateTagsFrom(_, _, _, _)
validateTagsFrom(tags, path, i, acc) ==
  IF i > Len(tags) THEN acc
  ELSE LET tag == tags[i]
           a1 == IF TypeOf(tag) # "string"
                 THEN addError(acc, IndexPath(path \o ".tags", i),
                               "Tag must be a string", "INVALID_TYPE")
                 ELSE IF Len(tag.s) = 0 \/ Len(tag.s) > TAG_LEN_MAX
                 THEN addError(acc, IndexPath(path \o ".tags", i),
                               "Tag must be 1-50 characters", "INVALID_LENGTH")
                 ELSE acc
       IN validateTagsFrom(tags, path, i + 1, a1)

validateMetadata(metadata, acc) ==
  LET path == "metadata"
      id == Get(metadata, "id")
      title == Get(metadata, "title")
      contentType == Get(metadata, "contentType")
      category == Get(metadata, "category")
      difficulty == Get(metadata, "difficulty")
      tags == Get(metadata, "tags")
      a1 == IF ~Truthy(id) \/ TypeOf(id) # "number" \/ id.n < 1
            THEN addError(acc, path \o ".id",
                          "ID must be a positive integer", "INVALID_VALUE")
            ELSE acc
      a2 == IF ~Truthy(title) \/ TypeOf(title) # "string"
            THEN addError(a1, path \o ".title",
                          "Title must be a non-empty string", "INVALID_VALUE")
            ELSE IF Len(title.s) > TITLE_MAX
            THEN addError(a1, path \o ".title",
                          "Title must be 200 characters or less",
                          "VALUE_TOO_LONG")
            ELSE a1
      a3 == IF ~Truthy(contentType)
            THEN addError(a2, path \o ".contentType",
                          "Missing required field: contentType",
                          "MISSING_REQUIRED")
            ELSE IF ~isValidContentType(contentType)
            THEN addError(a2, path \o ".contentType",
                          "Invalid contentType. Must be \"problem\" or \"lesson\"",
                          "INVALID_VALUE")
            ELSE a2
      a4 == IF Truthy(category) /\ ~isValidCategory(category)
            THEN addError(a3, path \o ".category", "Invalid category",
                          "INVALID_VALUE")
            ELSE a3
      a5 == IF Truthy(difficulty) /\ ~isValidDifficulty(difficulty)
            THEN addError(a4, path \o ".difficulty",
                          "Invalid difficulty. Must be \"Easy\", \"Medium\", or \"Hard\"",
                          "INVALID_VALUE")
            ELSE a4
  IN IF tags.k # "undefined"
     THEN IF ~IsArray(tags)
          THEN addError(a5, path \o ".tags", "Tags must be an array",
                        "INVALID_TYPE")
          ELSE LET a6 == IF Len(tags.a) > TAGS_MAX
                         THEN addError(a5, path \o ".tags",
                                       "Maximum 10 tags allowed",
                                       "ARRAY_TOO_LONG")
                         ELSE a5
               IN validateTagsFrom(tags.a, path, 1, a6)
     ELSE a5

validateParagraphBlock(data, path, acc) ==
  LET text == Get(data, "text")
  IN IF ~Truthy(text) \/ TypeOf(text) # "string"
     THEN addError(acc, path \o ".data.text",
                   "Paragraph text must be a non-empty string", "INVALID_VALUE")
     ELSE acc

validateHeaderBlock(data, path, acc) ==
  LET text == Get(data, "text")
      level == Get(data, "level")
      a1 == IF ~Truthy(text) \/ TypeOf(text) # "string"
            THEN addError(acc, path \o ".data.text",
                          "Header text must be a non-empty string",
                          "INVALID_VALUE")
            ELSE acc
  IN IF ~Truthy(level) \/ TypeOf(level) # "number"
     THEN addError(a1, path \o ".data.level", "Header level is required",
                   "MISSING_REQUIRED")
     ELSE IF level.n < LEVEL_MIN \/ level.n > LEVEL_MAX
     THEN addError(a1, path \o ".data.level",
                   "Header level must be between 1 and 6", "INVALID_VALUE")
     ELSE a1

\* data.items.forEach(...), from element i on
RECURSIVE validateItemsFrom(_, _, _, _)
validateItemsFrom(items, path, i, acc) ==
  IF i > Len(items) THEN acc
  ELSE validateItemsFrom(items, path, i + 1,
         IF TypeOf(items[i]) # "string"
         THEN addError(acc, IndexPath(path \o ".data.items", i),
                       "List item must be a string", "INVALID_TYPE")
         ELSE acc)

validateListBlock(data, path, acc) ==
  LET style == Get(data, "style")
      items == Get(data, "items")
      a1 == IF ~Truthy(style)
               \/ (~IsStr(style, S_ordered) /\ ~IsStr(style, S_unordered))
            THEN addError(acc, path \o ".data.style",
                          "List style must be \"ordered\" or \"unordered\"",
                          "INVALID_VALUE")
            ELSE acc
  IN IF ~IsArray(items)
     THEN addError(a1, path \o ".data.items", "List items must be an array",
                   "INVALID_TYPE")
     ELSE IF Len(items.a) = 0
     THEN addError(a1, path \o ".data.items",
                   "List must have at least one item", "ARRAY_EMPTY")
     ELSE validateItemsFrom(items.a, path, 1, a1)

validateQuoteBlock(data, path, acc) ==
  LET text == Get(data, "text")
      caption == Get(data, "caption")
      a1 == IF ~Truthy(text) \/ TypeOf(text) # "string"
            THEN addError(acc, path \o ".data.text",
                          "Quote text must be a non-empty string",
                          "INVALID_VALUE")
            ELSE acc
  IN IF caption.k # "undefined" /\ TypeOf(caption) # "string"
     THEN addError(a1, path \o ".data.caption",
                   "Quote caption must be a string", "INVALID_TYPE")
     ELSE a1

validateMathBlock(data, path, acc) ==
  LET latex == Get(data, "latex")
      display == Get(data, "display")
      a1 == IF ~Truthy(latex) \/ TypeOf(latex) # "string"
            THEN addError(acc, path \o ".data.latex",
                          "Math LaTeX must be a non-empty string",
                          "INVALID_VALUE")
            ELSE acc
  IN IF display.k = "undefined" \/ TypeOf(display) # "boolean"
     THEN addError(a1, path \o ".data.display",
                   "Math display must be a boolean", "INVALID_TYPE")
     ELSE a1

validateImageBlock(data, path, acc) ==
  LET url == Get(data, "url")
      alt == Get(data, "alt")
      caption == Get(data, "caption")
      alignment == Get(data, "alignment")
      size == Get(data, "size")
      a1 == IF ~Truthy(url) \/ TypeOf(url) # "string"
            THEN addError(acc, path \o ".data.url",
                          "Image URL must be a non-empty string",
                          "INVALID_VALUE")
            ELSE IF ~URLParses(url.s) /\ ~StartsWith(url.s, S_slash)
                    /\ ~StartsWith(url.s, S_dataColon)
            THEN addError(acc, path \o ".data.url",
                          "Image URL must be a valid URL, relative path, or data URI",
                          "INVALID_VALUE")
            ELSE acc
      a2 == IF alt.k # "undefined" /\ TypeOf(alt) # "string"
            THEN addError(a1, path \o ".data.alt",
                          "Image alt text must be a string", "INVALID_TYPE")
            ELSE a1
      a3 == IF caption.k # "undefined" /\ TypeOf(caption) # "string"
            THEN addError(a2, path \o ".data.caption",
                          "Image caption must be a string", "INVALID_TYPE")
            ELSE a2
      a4 == IF Truthy(alignment) /\ ~isValidImageAlignment(alignment)
            THEN addError(a3, path \o ".data.alignment",
                          "Invalid alignment. Must be \"center\", \"float-left\", or \"float-right\"",
                          "INVALID_VALUE")
            ELSE a3
  IN IF Truthy(size) /\ ~isValidImageSize(size)
     THEN addError(a4, path \o ".data.size",
                   "Invalid size. Must be \"small\", \"medium\", \"large\", or \"full\"",
                   "INVALID_VALUE")
     ELSE a4

\* the message `Invalid block type: ${block.type}` is built before addError
\* is called; the conversion of block.type may raise
validateBlock(block, path, acc) ==
  IF acc.thr THEN acc
  ELSE IF ~Truthy(block) \/ TypeOf(block) # "object"
  THEN addError(acc, path, "Block must be an object", "INVALID_TYPE")
  ELSE IF ~Truthy(Get(block, "type"))
  THEN addError(acc, path \o ".type", "Missing required field: type",
                "MISSING_REQUIRED")
  ELSE IF ~isValidBlockType(Get(block, "type"))
  THEN LET t == ToStr(Get(block, "type"))
       IN IF t.thr THEN Raise(acc)
          ELSE addError(acc, path \o ".type", "Invalid block type: " \o t.s,
                        "INVALID_VALUE")
  ELSE IF ~Truthy(Get(block, "data")) \/ TypeOf(Get(block, "data")) # "object"
  THEN addError(acc, path \o ".data", "Missing or invalid data object",
                "INVALID_TYPE")
  ELSE LET type == Get(block, "type")
           data == Get(block, "data")
       IN CASE IsStr(type, S_paragraph) -> validateParagraphBlock(data, path, acc)
            [] IsStr(type, S_header) -> validateHeaderBlock(data, path, acc)
            [] IsStr(type, S_list) -> validateListBlock(data, path, acc)
            [] IsStr(type, S_quote) -> validateQuoteBlock(data, path, acc)
            [] IsStr(type, S_math) -> validateMathBlock(data, path, acc)
            [] IsStr(type, S_image) -> validateImageBlock(data, path, acc)

\* blocks.forEach(...), from element i on
RECURSIVE validateBlocksFrom(_, _, _, _)
validateBlocksFrom(blocks, path, i, acc) ==
  IF i > Len(blocks) \/ acc.thr THEN acc
  ELSE validateBlocksFrom(blocks, path, i + 1,
                          validateBlock(blocks[i], IndexPath(path, i), acc))

\* validateBlocks without the check of the array's length
validateBlocks_noEmptyCheck(blocks, path, acc) ==
  IF ~IsArray(blocks)
  THEN addError(acc, path, "Blocks must be an array", "INVALID_TYPE")
  ELSE validateBlocksFrom(blocks.a, path, 1, acc)

validateBlocks(blocks, path, acc) ==
  IF ~IsArray(blocks)
  THEN addError(acc, path, "Blocks must be an array", "INVALID_TYPE")
  ELSE IF Len(blocks.a) = 0
  THEN addError(acc, path, "At least one block is required", "ARRAY_EMPTY")
  ELSE validateBlocksFrom(blocks.a, path, 1, acc)

\* validateSolution without the limit on the title's length
validateSolution_noTitleLimit(solution, path, acc) ==
  IF acc.thr THEN acc
  ELSE IF ~Truthy(solution) \/ TypeOf(solution) # "object"
  THEN addError(acc, path, "Solution must be an object", "INVALID_TYPE")
  ELSE LET title == Get(solution, "title")
           blocks == Get(solution, "blocks")
           a1 == IF ~Truthy(title) \/ TypeOf(title) # "string"
                 THEN addError(acc, path \o ".title",
                               "Solution title must be a non-empty string",
                               "INVALID_VALUE")
                 ELSE acc
       IN IF ~Truthy(blocks)
          THEN addError(a1, path \o ".blocks", "Solution blocks are required",
                        "MISSING_REQUIRED")
          ELSE validateBlocks(blocks, path \o ".blocks", a1)

validateSolution(solution, path, acc) ==
  IF acc.thr THEN acc
  ELSE IF ~Truthy(solution) \/ TypeOf(solution) # "object"
  THEN addError(acc, path, "Solution must be an object", "INVALID_TYPE")
  ELSE LET title == Get(solution, "title")
           blocks == Get(solution, "blocks")
           a1 == IF ~Truthy(title) \/ TypeOf(title) # "string"
                 THEN addError(acc, path \o ".title",
                               "Solution title must be a non-empty string",
                               "INVALID_VALUE")
                 ELSE IF Len(title.s) > SOLUTION_TITLE_MAX
                 THEN addError(acc, path \o ".title",
                               "Solution title must be 100 characters or less",
                               "VALUE_TOO_LONG")
                 ELSE acc
       IN IF ~Truthy(blocks)
          THEN addError(a1, path \o ".blocks", "Solution blocks are required",
                        "MISSING_REQUIRED")
          ELSE validateBlocks(blocks, path \o ".blocks", a1)

\* solutions.forEach(...), from element i on
RECURSIVE validateSolutionsFrom(_, _, _, _)
validateSolutionsFrom(solutions, path, i, acc) ==
  IF i > Len(solutions) \/ acc.thr THEN acc
  ELSE validateSolutionsFrom(solutions, path, i + 1,
         validateSolution(solutions[i], IndexPath(path, i), acc))

validateSolutions(solutions, acc) ==
  LET path == "solutions"
  IN IF acc.thr THEN acc
     ELSE IF ~IsArray(solutions)
     THEN addError(acc, path, "Solutions must be an array", "INVALID_TYPE")
     ELSE validateSolutionsFrom(solutions.a, path, 1, acc)

\* getResult reporting valid whatever the accumulator holds
getResult_alwaysValid(errs) == [valid |-> TRUE, errors |-> errs]

\* getResult(): the result object built from this.errors
getResult(errs) == [valid |-> Len(errs) = 0, errors |-> errs]

\* validate without the reset of the accumulator
ResetErrors_keep(thisErrors) == thisErrors

\* this.errors = [] at the start of validate
ResetErrors(thisErrors) == <<>>

\* the root check without its typeof test
IsNotObject_falsyOnly(content) == ~Truthy(content)

\* !content || typeof content !== 'object'
IsNotObject(content) == ~Truthy(content) \/ TypeOf(content) # "object"

\* validate checking the statement before the metadata
validate_statementFirst(thisErrors, content) ==
  LET a0 == [thr |-> FALSE, errs |-> ResetErrors(thisErrors)]
  IN IF IsNotObject(content)
     THEN addError(a0, "root", "Content must be an object", "INVALID_TYPE")
     ELSE LET metadata == Get(content, "metadata")
              statement == Get(content, "statement")
              solutions == Get(content, "solutions")
              a1 == IF ~Truthy(statement)
                    THEN addError(a0, "root",
                                  "Missing required property: statement",
                                  "MISSING_REQUIRED")
                    ELSE validateBlocks(statement, "statement", a0)
              a2 == IF a1.thr THEN a1
                    ELSE IF ~Truthy(metadata)
                    THEN addError(a1, "root",
                                  "Missing required property: metadata",
                                  "MISSING_REQUIRED")
                    ELSE validateMetadata(metadata, a1)
          IN IF solutions.k # "undefined"
             THEN validateSolutions(solutions, a2)
             ELSE a2

\* validate(content) on an instance whose accumulator holds thisErrors:
\* the accumulator at the end of the call, and whether the call raised
validate(thisErrors, content) ==
  LET a0 == [thr |-> FALSE, errs |-> ResetErrors(thisErrors)]
  IN IF IsNotObject(content)
     THEN addError(a0, "root", "Content must be an object", "INVALID_TYPE")
     ELSE LET metadata == Get(content, "metadata")
              statement == Get(content, "statement")
              solutions == Get(content, "solutions")
              a1 == IF ~Truthy(metadata)
                    THEN addError(a0, "root",
                                  "Missing required property: metadata",
                                  "MISSING_REQUIRED")
                    ELSE validateMetadata(metadata, a0)
              a2 == IF ~Truthy(statement)
                    THEN addError(a1, "root",
                                  "Missing required property: statement",
                                  "MISSING_REQUIRED")
                    ELSE validateBlocks(statement, "statement", a1)
          IN IF solutions.k # "undefined"
             THEN validateSolutions(solutions, a2)
             ELSE a2

(***************************************************************************)
(* HTMLRenderer (renderer/html.ts).  Markup is a sequence of atoms: the    *)
(* literal chunks of the templates, and the characters of the data that    *)
(* is interpolated.  A rendering is [thr |-> an exception was raised,      *)
(* out |-> the markup].                                                    *)
(***************************************************************************)
R(out) == [thr |-> FALSE, out |-> out]
Thrown == [thr |-> TRUE, out |-> <<>>]

\* the concatenation of the renderings rs, raising if one of them raised
RECURSIVE Cat(_)
Cat(rs) ==
  IF rs = <<>> THEN R(<<>>)
  ELSE LET t == Cat(Tail(rs))
       IN IF Head(rs).thr \/ t.thr THEN Thrown ELSE R(Head(rs).out \o t.out)

\* `${v}` inside a template literal, and the right operand of string + v
Interp(v) ==
  IF v.k = "string" THEN R(v.s)
  ELSE LET t == ToStr(v) IN IF t.thr THEN Thrown ELSE R(<<t.s>>)

\* the map of escapeHtml without its entry for &
EscapeChar_noAmp(m) ==
  CASE m = "<" -> <<"&", "l", "t", ";">>
    [] m = ">" -> <<"&", "g", "t", ";">>
    [] m = "\"" -> <<"&", "q", "u", "o", "t", ";">>
    [] m = "'" -> <<"&", "#", "0", "3", "9", ";">>
    [] OTHER -> <<m>>

\* the entity that replaces the character m
EscapeChar(m) ==
  CASE m = "&" -> <<"&", "a", "m", "p", ";">>
    [] m = "<" -> <<"&", "l", "t", ";">>
    [] m = ">" -> <<"&", "g", "t", ";">>
    [] m = "\"" -> <<"&", "q", "u", "o", "t", ";">>
    [] m = "'" -> <<"&", "#", "0", "3", "9", ";">>
    [] OTHER -> <<m>>

\* every character of s replaced by EscapeChar of it
RECURSIVE EscapeChars(_)
EscapeChars(s) ==
  IF Len(s) = 0 THEN <<>>
  ELSE IF Len(s) = 1 THEN EscapeChar(s[1])
  ELSE LET h == Len(s) \div 2
       IN EscapeChars(SubSeq(s, 1, h)) \o EscapeChars(SubSeq(s, h + 1, Len(s)))

\* text.replace(/[&<>"']/g, m => map[m]): text.replace is callable only on
\* a string
escapeHtml(text) ==
  IF text.k # "string" THEN Thrown ELSE R(EscapeChars(text.s))

UpperCase ==
  <<"A", "B", "C", "D", "E", "F", "G", "H", "I", "J", "K", "L", "M", "N", "O",
    "P", "Q", "R", "S", "T", "U", "V", "W", "X", "Y", "Z">>
LowerCase ==
  <<"a", "b", "c", "d", "e", "f", "g", "h", "i", "j", "k", "l", "m", "n", "o",
    "p", "q", "r", "s", "t", "u", "v", "w", "x", "y", "z">>

\* s.toLowerCase()
toLowerCase(s) ==
  [i \in 1..Len(s) |->
     IF \E j \in 1..26 : UpperCase[j] = s[i]
     THEN LowerCase[CHOOSE j \in 1..26 : UpperCase[j] = s[i]]
     ELSE s[i]]

\* the renderings rs joined with the separator sep (Array.prototype.join)
RECURSIVE JoinR(_, _)
JoinR(rs, sep) ==
  IF rs = <<>> THEN R(<<>>)
  ELSE IF Len(rs) = 1 THEN Head(rs)
  ELSE Cat(<<Head(rs), R(sep), JoinR(Tail(rs), sep)>>)

\* a ?? b
Coalesce(a, b) == IF a.k \in {"undefined", "null"} THEN b ELSE a

S_mathjax == <<"m", "a", "t", "h", "j", "a", "x">>
S_katex == <<"k", "a", "t", "e", "x">>
S_contentWrapper == <<"c", "o", "n", "t", "e", "n", "t", "-", "w", "r", "a", "p", "p", "e", "r">>
S_statementBlock == <<"s", "t", "a", "t", "e", "m", "e", "n", "t", "-", "b", "l", "o", "c", "k">>
S_solutionBlock == <<"s", "o", "l", "u", "t", "i", "o", "n", "-", "b", "l", "o", "c", "k">>

\* new HTMLRenderer(options): this.options (an options argument that is
\* undefined takes the default {})
Construct(options) ==
  [includeMetadata |-> Coalesce(Get(options, "includeMetadata"), Bool(TRUE)),
   mathDelimiters |-> Coalesce(Get(options, "mathDelimiters"), Str(S_mathjax)),
   imageBaseUrl |-> Coalesce(Get(options, "imageBaseUrl"), Str(<<>>)),
   cssClasses |->
     LET css == Get(options, "cssClasses")
     IN [wrapper |-> Coalesce(Get(css, "wrapper"), Str(S_contentWrapper)),
         statement |-> Coalesce(Get(css, "statement"), Str(S_statementBlock)),
         solution |-> Coalesce(Get(css, "solution"), Str(S_solutionBlock))]]

renderMetadata(opts, metadata) ==
  IF ~CanRead(metadata) THEN Thrown
  ELSE LET mtags == Get(metadata, "tags")
           difficulty == Get(metadata, "difficulty")
           tags == IF ~IsArray(mtags) THEN Thrown
                   ELSE JoinR([i \in 1..Len(mtags.a) |->
                                 Cat(<<R(<<"<span class=\"badge badge-tag\">#">>),
                                       escapeHtml(mtags.a[i]),
                                       R(<<"</span>">>)>>)],
                              <<" ">>)
       IN Cat(<<R(<<"\n      ", "<div class=\"content-metadata\">", "\n        ",
                    "<h1 class=\"content-title\">">>),
                escapeHtml(Get(metadata, "title")),
                R(<<"</h1>", "\n        ",
                    "<div class=\"content-meta-info\">", "\n          ",
                    "<span class=\"badge badge-category\">">>),
                escapeHtml(Get(metadata, "category")),
                R(<<"</span>", "\n          ",
                    "<span class=\"badge badge-difficulty badge-">>),
                IF difficulty.k # "string" THEN Thrown
                ELSE R(toLowerCase(difficulty.s)),
                R(<<"\">">>),
                escapeHtml(difficulty),
                R(<<"</span>", "\n          ">>),
                tags,
                R(<<"\n        ", "</div>", "\n      ", "</div>", "\n    ">>)>>)

\* renderParagraph passing the text through escapeHtml
renderParagraph_escaped(block) ==
  LET data == Get(block, "data")
  IN IF ~CanRead(data) THEN Thrown
     ELSE Cat(<<R(<<"<div class=\"content-block\">", "<p>">>),
                escapeHtml(Get(data, "text")),
                R(<<"</p>", "</div>">>)>>)

renderParagraph(block) ==
  LET data == Get(block, "data")
  IN IF ~CanRead(data) THEN Thrown
     ELSE Cat(<<R(<<"<div class=\"content-block\">", "<p>">>),
                Interp(Get(data, "text")),
                R(<<"</p>", "</div>">>)>>)

renderHeader(block) ==
  LET data == Get(block, "data")
  IN IF ~CanRead(data) THEN Thrown
     ELSE LET tag == Cat(<<R(<<"h">>), Interp(Get(data, "level"))>>)
          IN Cat(<<R(<<"<div class=\"content-block\">", "<">>), tag, R(<<">">>),
                   escapeHtml(Get(data, "text")),
                   R(<<"</">>), tag, R(<<">", "</div>">>)>>)

renderList(block) ==
  LET data == Get(block, "data")
  IN IF ~CanRead(data) THEN Thrown
     ELSE LET tag == IF IsStr(Get(data, "style"), S_ordered) THEN "ol" ELSE "ul"
              ditems == Get(data, "items")
              items == IF ~IsArray(ditems) THEN Thrown
                       ELSE JoinR([i \in 1..Len(ditems.a) |->
                                     Cat(<<R(<<"<li>">>), Interp(ditems.a[i]),
                                           R(<<"</li>">>)>>)],
                                  <<>>)
          IN Cat(<<R(<<"<div class=\"content-block\">", "<", tag,
                       " class=\"content-list\">">>),
                   items,
                   R(<<"</", tag, ">", "</div>">>)>>)

renderQuote(block) ==
  LET data == Get(block, "data")
  IN IF ~CanRead(data) THEN Thrown
     ELSE LET caption ==
                IF Truthy(Get(data, "caption"))
                THEN Cat(<<R(<<"<footer class=\"quote-caption\">", "\\u2014 ">>),
                           escapeHtml(Get(data, "caption")),
                           R(<<"</footer>">>)>>)
                ELSE R(<<>>)
          IN Cat(<<R(<<"\n      ", "<div class=\"content-block\">", "\n        ",
                       "<blockquote class=\"content-quote\">", "\n          ",
                       "<p>">>),
                   Interp(Get(data, "text")),
                   R(<<"</p>", "\n          ">>),
                   caption,
                   R(<<"\n        ", "</blockquote>", "\n      ", "</div>",
                       "\n    ">>)>>)

renderMath(opts, block) ==
  LET data == Get(block, "data")
  IN IF ~CanRead(data) THEN Thrown
     ELSE LET display == Truthy(Get(data, "display"))
              delim == IF display THEN "$$" ELSE "$"
              wrapped == Cat(<<R(<<delim>>), Interp(Get(data, "latex")),
                               R(<<delim>>)>>)
              className == IF display THEN "math-display" ELSE "math-inline"
          IN Cat(<<R(<<"<div class=\"content-block ", className, "\">">>),
                   wrapped,
                   R(<<"</div>">>)>>)

\* the image-block element, the same in both branches of renderImage
ImageBlockFragment(opts, data, indent) ==
  LET alt == Get(data, "alt")
      caption == Get(data, "caption")
      alignClass == Cat(<<R(<<"align-">>), Interp(Get(data, "alignment"))>>)
      sizeClass == Cat(<<R(<<"size-">>), Interp(Get(data, "size"))>>)
      imgUrl == Cat(<<Interp(opts.imageBaseUrl), Interp(Get(data, "url"))>>)
      imgElement ==
        Cat(<<R(<<"<img src=\"">>),
              IF imgUrl.thr THEN Thrown ELSE R(EscapeChars(imgUrl.out)),
              R(<<"\" alt=\"">>), escapeHtml(alt), R(<<"\" loading=\"lazy\">">>)>>)
      captionElement ==
        IF Truthy(caption)
        THEN Cat(<<R(<<"<span class=\"image-caption\">">>), escapeHtml(caption),
                   R(<<"</span>">>)>>)
        ELSE R(<<>>)
  IN Cat(<<R(<<"<div class=\"image-block ">>), alignClass, R(<<" ">>),
           sizeClass, R(<<"\">", indent \o "  ">>),
           imgElement, R(<<indent \o "  ">>),
           captionElement, R(<<indent, "</div>">>)>>)

\* alignment === 'float-left' || alignment === 'float-right'
IsFloat(alignment) ==
  IsStr(alignment, S_floatLeft) \/ IsStr(alignment, S_floatRight)

renderImage(opts, block) ==
  LET data == Get(block, "data")
  IN IF ~CanRead(data) THEN Thrown
     ELSE IF IsFloat(Get(data, "alignment"))
     THEN Cat(<<R(<<"\n        ">>),
                ImageBlockFragment(opts, data, "\n        "),
                R(<<"\n      ">>)>>)
     ELSE Cat(<<R(<<"\n      ", "<div class=\"content-block\">", "\n        ">>),
                ImageBlockFragment(opts, data, "\n        "),
                R(<<"\n      ", "</div>", "\n    ">>)>>)

renderBlock(opts, block) ==
  IF ~CanRead(block) THEN Thrown
  ELSE LET type == Get(block, "type")
       IN CASE IsStr(type, S_paragraph) -> renderParagraph(block)
            [] IsStr(type, S_header) -> renderHeader(block)
            [] IsStr(type, S_list) -> renderList(block)
            [] IsStr(type, S_quote) -> renderQuote(block)
            [] IsStr(type, S_math) -> renderMath(opts, block)
            [] IsStr(type, S_image) -> renderImage(opts, block)
            [] OTHER -> R(<<>>)

\* blocks.map(block => this.renderBlock(block)).join('\n')
renderBlocks(opts, blocks) ==
  IF ~IsArray(blocks) THEN Thrown
  ELSE JoinR([i \in 1..Len(blocks.a) |-> renderBlock(opts, blocks.a[i])],
             <<"\n">>)

renderSolutions(opts, solutions) ==
  IF ~IsArray(solutions) THEN Thrown
  ELSE LET solutionsHtml ==
             JoinR([i \in 1..Len(solutions.a) |->
                      IF ~CanRead(solutions.a[i]) THEN Thrown
                      ELSE Cat(<<R(<<"\n        ", "<div class=\"">>),
                                 Interp(opts.cssClasses.solution),
                                 R(<<" clearfix\">", "\n          ",
                                     "<h2 class=\"solution-title\">">>),
                                 escapeHtml(Get(solutions.a[i], "title")),
                                 R(<<"</h2>", "\n          ">>),
                                 renderBlocks(opts, Get(solutions.a[i], "blocks")),
                                 R(<<"\n        ", "</div>", "\n      ">>)>>)],
                   <<"\n">>)
       IN Cat(<<R(<<"\n      ", "<div class=\"solutions-container\">",
                    "\n        ",
                    "<h2 class=\"solutions-header\">Solutions</h2>",
                    "\n        ">>),
                solutionsHtml,
                R(<<"\n      ", "</div>", "\n    ">>)>>)

\* v.length for a string or an array
LengthOf(v) ==
  CASE v.k = "array" -> Num(Len(v.a))
    [] v.k = "string" -> Num(Len(v.s))
    [] OTHER -> Get(v, "length")

\* content.solutions && content.solutions.length > 0 (a length that is not
\* a number compares as NaN or by numeric conversion; the model's objects
\* carry no "length" property)
HasSolutions(solutions) ==
  Truthy(solutions) /\ LengthOf(solutions).k = "number"
    /\ LengthOf(solutions).n > 0

\* render pushing the solutions before the statement
render_solutionsFirst(opts, content) ==
  IF ~CanRead(content) THEN Thrown
  ELSE LET solutions == Get(content, "solutions")
           parts ==
             (IF Truthy(opts.includeMetadata)
              THEN <<renderMetadata(opts, Get(content, "metadata"))>>
              ELSE <<>>)
             \o (IF HasSolutions(solutions)
                 THEN <<renderSolutions(opts, solutions)>>
                 ELSE <<>>)
             \o <<Cat(<<R(<<"<div class=\"">>),
                        Interp(opts.cssClasses.statement), R(<<"\">">>)>>),
                  renderBlocks(opts, Get(content, "statement")),
                  R(<<"</div>">>)>>
       IN Cat(<<R(<<"<div class=\"">>), Interp(opts.cssClasses.wrapper),
                R(<<"\">">>), JoinR(parts, <<"\n">>), R(<<"</div>">>)>>)

render(opts, content) ==
  IF ~CanRead(content) THEN Thrown
  ELSE LET solutions == Get(content, "solutions")
           parts ==
             (IF Truthy(opts.includeMetadata)
              THEN <<renderMetadata(opts, Get(content, "metadata"))>>
              ELSE <<>>)
             \o <<Cat(<<R(<<"<div class=\"">>),
                        Interp(opts.cssClasses.statement), R(<<"\">">>)>>),
                  renderBlocks(opts, Get(content, "statement")),
                  R(<<"</div>">>)>>
             \o (IF HasSolutions(solutions)
                 THEN <<renderSolutions(opts, solutions)>>
                 ELSE <<>>)
       IN Cat(<<R(<<"<div class=\"">>), Interp(opts.cssClasses.wrapper),
                R(<<"\">">>), JoinR(parts, <<"\n">>), R(<<"</div>">>)>>)

\* renderToHTML(content, options)
renderToHTML(content, options) == render(Construct(options), content)

\* validateContent(content): validate on a freshly constructed validator,
\* whose accumulator is initialised to []
validateContent(content) == validate(<<>>, content)

(***************************************************************************)
(* Inputs.  The values below are the JSON values the model feeds to the    *)
(* validator and to the renderer.                                          *)
(***************************************************************************)
MaxBlocks == 2
MaxSolutions == 2
MaxText == 3
MaxCalls == 3
NumClients == 2
MaxId == 1
MaxAdds == 2
MaxMainBlocks == 1

Clients == 1..NumClients
ContentTypes == {"problem", "lesson"}
IdleOp == [pc |-> "idle", kind |-> "none", contentType |-> "problem", id |-> 0]
NoDraft == [present |-> FALSE]
NotGathered ==
  [status |-> "none", statement |-> 0, solutions |-> <<>>,
   phase |-> "solutions"]

C_hi == <<"h", "i">>
C_markup == <<"<", "b", ">", "x", "<", "/", "b", ">">>
C_quoted == <<"a", "&", "\"", "'">>
U_abs == <<"h", "t", "t", "p", "s", ":", "/", "/", "e", ".", "c", "o", "/", "i", ".", "p", "n", "g">>
U_root == <<"/", "i", ".", "p", "n", "g">>
U_data == <<"d", "a", "t", "a", ":", "i", "m", "a", "g", "e", "/", "p", "n", "g", ",", "A">>
U_rel == <<"a", ".", "p", "n", "g">>
U_nohost == <<"h", "t", "t", "p", ":", "/", "/">>

Block(type, data) == Obj([type |-> Str(type), data |-> Obj(data)])

ThrowingType == Obj([toString |-> Num(1)])

ValidBlocks ==
  {Block(S_paragraph, [text |-> Str(C_hi)]),
   Block(S_paragraph, [text |-> Str(C_markup), extra |-> Num(1)]),
   Block(S_header, [text |-> Str(<<"x">>), level |-> Num(1)]),
   Block(S_header, [text |-> Str(C_markup), level |-> Num(6)]),
   Block(S_list, [style |-> Str(S_ordered), items |-> Arr(<<Str(<<"a">>)>>)]),
   Block(S_list, [style |-> Str(S_unordered),
                  items |-> Arr(<<Str(C_markup), Str(<<>>)>>)]),
   Block(S_quote, [text |-> Str(C_hi), caption |-> Str(C_quoted)]),
   Block(S_quote, [text |-> Str(C_markup)]),
   Block(S_quote, [text |-> Str(C_hi), caption |-> Str(<<>>)]),
   Block(S_math, [latex |-> Str(<<"x", "<", "y">>), display |-> Bool(TRUE)]),
   Block(S_math, [latex |-> Str(<<"x">>), display |-> Bool(FALSE)]),
   Block(S_image, [url |-> Str(U_abs), alt |-> Str(C_quoted),
                   caption |-> Str(C_markup), alignment |-> Str(S_center),
                   size |-> Str(S_medium)]),
   Block(S_image, [url |-> Str(U_root)]),
   Block(S_image, [url |-> Str(U_data), alt |-> Str(<<>>)]),
   Block(S_image, [url |-> Str(U_abs), alt |-> Str(<<"a">>),
                   alignment |-> Str(S_floatLeft), size |-> Str(S_small)]),
   Block(S_image, [url |-> Str(U_root), alt |-> Str(<<"a">>),
                   caption |-> Str(C_hi), alignment |-> Str(S_floatRight)]),
   Block(S_image, [url |-> Str(U_root), alignment |-> Str(S_floatLeft),
                   size |-> Str(S_medium)]),
   Block(S_image, [url |-> Str(U_root), alt |-> Str(<<"a">>),
                   alignment |-> Str(S_center), size |-> Str(S_full)]),
   Block(S_image, [url |-> Str(U_root), alt |-> Str(<<"a">>),
                   size |-> Str(S_large)])}

InvalidBlocks ==
  {Null, Num(3), Str(<<"b">>), Bool(TRUE), Arr(<<>>),
   Arr(<<Str(S_paragraph)>>),
   Obj(NoProps),
   Obj([data |-> Obj([text |-> Str(C_hi)])]),
   Obj([type |-> Str(<<>>), data |-> Obj([text |-> Str(C_hi)])]),
   Obj([type |-> Num(5), data |-> Obj(NoProps)]),
   Obj([type |-> Obj(NoProps), data |-> Obj(NoProps)]),
   Obj([type |-> ThrowingType, data |-> Obj([text |-> Str(C_hi)])]),
   Obj([type |-> Arr(<<Str(S_paragraph)>>), data |-> Obj([text |-> Str(C_hi)])]),
   Obj([type |-> Arr(<<Num(1), ThrowingType>>)]),
   Block(<<"v", "i", "d", "e", "o">>, [text |-> Str(C_hi)]),
   Obj([type |-> Str(<<"v", "i", "d", "e", "o">>)]),
   Obj([type |-> Str(S_paragraph)]),
   Obj([type |-> Str(S_paragraph), data |-> Null]),
   Obj([type |-> Str(S_paragraph), data |-> Str(C_hi)]),
   Obj([type |-> Str(S_paragraph), data |-> Arr(<<>>)]),
   Obj([type |-> Str(S_list), data |-> Arr(<<Str(C_hi)>>)]),
   Obj([type |-> Str(S_image), data |-> Num(0)]),
   Block(S_paragraph, [text |-> Str(<<>>)]),
   Block(S_paragraph, [text |-> Num(1)]),
   Block(S_paragraph, NoProps),
   Block(S_header, [text |-> Str(<<>>), level |-> Num(0)]),
   Block(S_header, [text |-> Str(C_hi), level |-> Num(0)]),
   Block(S_header, [text |-> Str(C_hi), level |-> Num(7)]),
   Block(S_header, [text |-> Str(C_hi), level |-> Num(-1)]),
   Block(S_header, [text |-> Str(C_hi), level |-> Num(9)]),
   Block(S_header, [text |-> Str(C_hi)]),
   Block(S_header, [text |-> Str(C_hi), level |-> Str(<<"2">>)]),
   Block(S_header, [level |-> Num(9)]),
   Block(S_list, [style |-> Str(<<"x">>), items |-> Arr(<<Str(<<"a">>)>>)]),
   Block(S_list, [style |-> Str(S_ordered), items |-> Str(<<"a">>)]),
   Block(S_list, [style |-> Str(S_ordered), items |-> Arr(<<>>)]),
   Block(S_list, [style |-> Str(S_ordered)]),
   Block(S_list, [items |-> Arr(<<Num(1), Str(<<"a">>), Null>>)]),
   Block(S_quote, [text |-> Str(<<>>)]),
   Block(S_quote, [text |-> Str(C_hi), caption |-> Num(5)]),
   Block(S_quote, [caption |-> Null]),
   Block(S_math, [latex |-> Str(<<>>), display |-> Bool(TRUE)]),
   Block(S_math, [latex |-> Str(<<"x">>)]),
   Block(S_math, [latex |-> Str(<<"x">>), display |-> Str(<<"t">>)]),
   Block(S_math, [display |-> Num(1)]),
   Block(S_image, [url |-> Str(<<>>)]),
   Block(S_image, [url |-> Str(U_rel)]),
   Block(S_image, [url |-> Str(U_nohost), alt |-> Str(<<"a">>)]),
   Block(S_image, [url |-> Num(1)]),
   Block(S_image, [alt |-> Str(<<"a">>)]),
   Block(S_image, [url |-> Str(U_root), alt |-> Num(1)]),
   Block(S_image, [url |-> Str(U_root), caption |-> Bool(FALSE)]),
   Block(S_image, [url |-> Str(U_root), alignment |-> Str(<<"l", "e", "f", "t">>)]),
   Block(S_image, [url |-> Str(U_root), size |-> Str(<<"h", "u", "g", "e">>)]),
   Block(S_image, [url |-> Str(U_root), alignment |-> Num(0),
                   size |-> Str(<<>>)]),
   Block(S_image, [url |-> Str(U_rel), alt |-> Null,
                   alignment |-> Num(1), size |-> Bool(TRUE)])}

AllBlocks == ValidBlocks \cup InvalidBlocks

\* the blocks that arrays of two or more blocks are built from
BlockPool ==
  {Block(S_paragraph, [text |-> Str(C_hi)]),
   Block(S_header, [text |-> Str(<<>>), level |-> Num(0)]),
   Obj([type |-> ThrowingType, data |-> Obj([text |-> Str(C_hi)])]),
   Block(S_image, [url |-> Str(U_root), alignment |-> Str(S_floatLeft),
                   size |-> Str(S_medium)])}

\* the sequences over S of a length from lo to hi
SeqsOf(S, lo, hi) == UNION {[1..n -> S] : n \in lo..hi}

BlockArrays ==
  {Arr(<<>>)} \cup {Arr(<<b>>) : b \in AllBlocks}
    \cup {Arr(s) : s \in SeqsOf(BlockPool, 2, MaxBlocks)}

StatementCands ==
  {Undef, Null, Str(<<>>), Str(<<"s">>), Num(0), Num(5), Bool(FALSE),
   Obj(NoProps)} \cup BlockArrays

Meta(fields) == Obj(fields)

FullMeta ==
  [id |-> Num(1), title |-> Str(<<"T", "&">>), contentType |-> Str(S_problem),
   category |-> Str(S_Algebra), difficulty |-> Str(S_Medium),
   tags |-> Arr(<<Str(<<"t", "<">>)>>), author |-> Str(<<"a">>),
   draft |-> Bool(FALSE), timestamp |-> Str(<<"2", "0", "2", "5">>)]

\* the record r without the fields named in drop
Without(r, drop) == [f \in (DOMAIN r) \ drop |-> r[f]]

ValidMetas ==
  {Meta(FullMeta),
   Meta([FullMeta EXCEPT !.id = Num(7), !.title = Str(Rep("a", TITLE_MAX)),
                         !.contentType = Str(S_lesson),
                         !.category = Str(S_NumberTheory),
                         !.difficulty = Str(S_Hard),
                         !.tags = Arr(Rep(Str(Rep("t", TAG_LEN_MAX)), TAGS_MAX))]),
   Meta([FullMeta EXCEPT !.tags = Arr(<<>>)])}

\* metadata the validator accepts although fields of the data model are
\* missing
LenientMetas ==
  {Meta(Without(FullMeta, {"tags"})),
   Meta(Without(FullMeta, {"category"})),
   Meta(Without(FullMeta, {"difficulty"})),
   Meta(Without(FullMeta, {"category", "difficulty", "tags", "author",
                           "draft", "timestamp"}))}

InvalidMetas ==
  {Null, Num(5), Str(<<"m">>), Bool(TRUE), Arr(<<>>), Obj(NoProps),
   Meta([FullMeta EXCEPT !.id = Num(0)]),
   Meta([FullMeta EXCEPT !.id = Str(<<"1">>)]),
   Meta([FullMeta EXCEPT !.title = Str(<<>>)]),
   Meta([FullMeta EXCEPT !.title = Str(Rep("a", TITLE_MAX + 1))]),
   Meta([FullMeta EXCEPT !.title = Num(3)]),
   Meta(Without(FullMeta, {"contentType"})),
   Meta([FullMeta EXCEPT !.contentType = Str(<<"q", "u", "i", "z">>)]),
   Meta([FullMeta EXCEPT !.category = Str(<<"X">>)]),
   Meta([FullMeta EXCEPT !.category = Num(0)]),
   Meta([FullMeta EXCEPT !.difficulty = Str(<<"e", "a", "s", "y">>)]),
   Meta([FullMeta EXCEPT !.difficulty = Null]),
   Meta([FullMeta EXCEPT !.tags = Str(<<"t">>)]),
   Meta([FullMeta EXCEPT !.tags = Null]),
   Meta([FullMeta EXCEPT !.tags = Arr(Rep(Str(<<"t">>), TAGS_MAX + 1))]),
   Meta([FullMeta EXCEPT !.tags =
           Arr(<<Num(1), Str(<<>>), Str(Rep("t", TAG_LEN_MAX + 1)), Str(<<"t">>)>>)]),
   Meta([id |-> Num(-1), title |-> Str(<<>>), contentType |-> Str(<<"x">>),
         category |-> Str(<<"X">>), difficulty |-> Str(<<"Y">>),
         tags |-> Arr(Rep(Num(1), TAGS_MAX + 1))])}

MetaCands == {Undef} \cup ValidMetas \cup LenientMetas \cup InvalidMetas

Solution(title, blocks) == Obj([title |-> title, blocks |-> blocks])

SolutionElems ==
  {Solution(Str(<<"S">>), Arr(<<Block(S_paragraph, [text |-> Str(C_hi)])>>)),
   Solution(Str(Rep("s", SOLUTION_TITLE_MAX)),
            Arr(<<Block(S_math, [latex |-> Str(<<"x">>), display |-> Bool(FALSE)])>>)),
   Solution(Str(C_markup), Arr(<<>>)),
   Solution(Str(Rep("s", SOLUTION_TITLE_MAX + 1)),
            Arr(<<Block(S_paragraph, [text |-> Str(C_hi)])>>)),
   Solution(Str(<<>>), Arr(<<Block(S_paragraph, [text |-> Str(C_hi)])>>)),
   Obj([blocks |-> Arr(<<>>)]),
   Obj([title |-> Str(<<"S">>)]),
   Solution(Str(<<"S">>), Str(<<"b">>)),
   Solution(Str(<<"S">>), Null),
   Solution(Num(1), Arr(<<Block(S_header, [text |-> Str(<<>>), level |-> Num(9)]),
                          Null>>)),
   Solution(Str(<<"S">>),
            Arr(<<Obj([type |-> ThrowingType, data |-> Obj(NoProps)])>>)),
   Null, Num(1), Str(<<"s">>), Arr(<<>>), Obj(NoProps)}

\* the solutions that arrays of two or more solutions are built from
SolutionPool ==
  {Solution(Str(<<"S">>), Arr(<<Block(S_paragraph, [text |-> Str(C_hi)])>>)),
   Solution(Str(C_markup),
            Arr(<<Block(S_math, [latex |-> Str(<<"x">>), display |-> Bool(TRUE)]),
                  Block(S_header, [text |-> Str(C_hi), level |-> Num(2)])>>)),
   Solution(Str(<<>>), Arr(<<Null>>)),
   Arr(<<>>)}

SolutionsCands ==
  {Undef, Null, Str(<<"s">>), Num(0), Obj(NoProps), Arr(<<>>)}
    \cup {Arr(<<z>>) : z \in SolutionElems}
    \cup {Arr(s) : s \in SeqsOf(SolutionPool, 2, MaxSolutions)}

\* the object { metadata: m, statement: s, solutions: z }, a property being
\* absent when its value is undefined
Content(m, s, z) ==
  LET val(f) == CASE f = "metadata" -> m
                  [] f = "statement" -> s
                  [] f = "solutions" -> z
  IN Obj([f \in {g \in {"metadata", "statement", "solutions"} :
                   val(g).k # "undefined"} |-> val(f)])

MetaPool ==
  {Meta(FullMeta), Undef,
   Meta([id |-> Num(-1), title |-> Str(<<>>), contentType |-> Str(<<"x">>),
         category |-> Str(<<"X">>), difficulty |-> Str(<<"Y">>),
         tags |-> Arr(Rep(Num(1), TAGS_MAX + 1))])}

StatementPool ==
  {Arr(<<Block(S_paragraph, [text |-> Str(C_hi)])>>), Arr(<<>>), Undef,
   Arr(<<Block(S_header, [text |-> Str(<<>>), level |-> Num(0)]),
         Obj([type |-> ThrowingType, data |-> Obj(NoProps)])>>)}

SolutionsPool ==
  {Undef,
   Arr(<<Solution(Str(<<"S">>),
                  Arr(<<Block(S_paragraph, [text |-> Str(C_hi)])>>))>>),
   Arr(<<Solution(Str(<<>>), Arr(<<Null>>))>>)}

\* the root values that are not objects of the content model
RootCands ==
  {Undef, Null, Bool(TRUE), Bool(FALSE), Num(0), Num(42), Str(<<>>),
   Str(<<"s">>), Arr(<<>>), Arr(<<Num(1)>>),
   Arr(<<Content(Meta(FullMeta),
                 Arr(<<Block(S_paragraph, [text |-> Str(C_hi)])>>), Undef)>>)}

ValidStatement == Arr(<<Block(S_paragraph, [text |-> Str(C_hi)])>>)

\* each section ranges over all its candidates beside valid other sections,
\* and the three pools are combined in every way
Contents ==
  RootCands
    \cup {Content(m, ValidStatement, Undef) : m \in MetaCands}
    \cup {Content(Meta(FullMeta), s, Undef) : s \in StatementCands}
    \cup {Content(Meta(FullMeta), ValidStatement, z) : z \in SolutionsCands}
    \cup {Content(m, s, z) : m \in MetaPool, s \in StatementPool,
                             z \in SolutionsPool}

\* validateContent(content).valid, as isValidContent returns it
isValidContent(content) == getResult(validateContent(content).errs).valid

U_cdn == <<"h", "t", "t", "p", "s", ":", "/", "/", "c", "d", "n", "/">>

\* the options the renderer is constructed with
OptionCands ==
  {Undef, Obj([includeMetadata |-> Bool(FALSE)]),
   Obj([mathDelimiters |-> Str(S_katex)]),
   Obj([includeMetadata |-> Bool(TRUE), mathDelimiters |-> Str(S_mathjax),
        imageBaseUrl |-> Str(U_cdn),
        cssClasses |-> Obj([wrapper |-> Str(<<"w">>)])])}

\* the characters of the texts handed to escapeHtml
TextChars == {"&", "<", ">", "\"", "'", "a", ";"}

\* the texts handed to escapeHtml
Texts == {Str(s) : s \in SeqsOf(TextChars, 0, MaxText)}

(***************************************************************************)
(* State.  errors: this.errors of one ContentValidator instance; content:  *)
(* the argument of its last validate call; result: what that call          *)
(* returned; dirty: that call found errors of an earlier call in           *)
(* this.errors when it started.  options: this.options of one HTMLRenderer *)
(* instance; rarg: the argument of the renderer call; rresult: the call    *)
(* that was made and its outcome.  heap: the arrays that the validator     *)
(* instance has allocated for this.errors, by their addresses 1, 2, ...;   *)
(* thisErrors: the address this.errors holds; held: the result objects     *)
(* that the callers of validate were handed, oldest first, each with a     *)
(* copy of what it showed when it was returned.  store: the documents of   *)
(* the remote collections; ops: the saveDraft and publishContent calls of  *)
(* the clients, each with its position.  The editor page: mainEditor,      *)
(* solutionEditors, solutionCount, autoSaveTimeout are the bindings of     *)
(* these names, window holds the properties of the window object, dom the  *)
(* form fields and the solutions list, mainBlocks the content of the main  *)
(* editor, draft the item 'az-math-draft' of localStorage, publish the     *)
(* position of the publishContent call of the page, gathered what the     *)
(* gatherAllData call of the user gave when it was the last step of the    *)
(* page; phase and since record what the user has done so far.  Of         *)
(* window.solutionEditors the model keeps whether it is the array of the   *)
(* binding (sameArray), and of the draft whether it is there.              *)
(***************************************************************************)
VARIABLES errors, content, result, dirty, options, rarg, rresult,
          heap, thisErrors, held, store, ops,
          mainEditor, solutionEditors, solutionCount, autoSaveTimeout,
          window, dom, mainBlocks, draft, publish, gathered, phase, since

vars == <<errors, content, result, dirty, options, rarg, rresult,
          heap, thisErrors, held, store, ops,
          mainEditor, solutionEditors, solutionCount, autoSaveTimeout,
          window, dom, mainBlocks, draft, publish, gathered, phase, since>>
idVars == <<store, ops>>
editorVars == <<mainEditor, solutionEditors, solutionCount, autoSaveTimeout,
                window, dom, mainBlocks, draft, publish, gathered, phase,
                since>>
validatorVars == <<errors, content, result, dirty>>
rendererVars == <<options, rarg, rresult>>
frameVars == <<heap, thisErrors, held>>

\* private errors: ValidationError[] = [] of a new instance, no call made
NewInstance ==
  /\ heap = << <<>> >>
  /\ thisErrors = 1
  /\ held = <<>>

NoResult == [status |-> "none", valid |-> FALSE, errors |-> <<>>]
ThrewResult == [status |-> "threw", valid |-> FALSE, errors |-> <<>>]
Returned(r) == [status |-> "returned", valid |-> r.valid, errors |-> r.errors]

NoRender == [call |-> "none", status |-> "none", out |-> <<>>]
Rendered(call, r) ==
  [call |-> call, status |-> IF r.thr THEN "threw" ELSE "returned",
   out |-> r.out]

\* the remote collections without documents, no client at work
NoDocuments ==
  /\ store = {}
  /\ ops = [p \in Clients |-> IdleOp]

\* the editor page when its scripts have run and DOMContentLoaded has not
\* fired: the export lines have copied the bindings to the window object
NewPage(t) ==
  /\ mainEditor = "null"
  /\ solutionEditors = <<>>
  /\ solutionCount = 0
  /\ autoSaveTimeout = "none"
  /\ window = [mainEditor |-> "null", sameArray |-> TRUE]
  /\ dom = [contentId |-> 0, title |-> "", contentType |-> t,
            solutionsList |-> <<>>]
  /\ mainBlocks = 0
  /\ draft = NoDraft
  /\ publish = [pc |-> "idle", contentType |-> t, id |-> 0]
  /\ gathered = NotGathered
  /\ phase = "solutions"
  /\ since = "none"

(***************************************************************************)
(* The validator: one ContentValidator instance on which validate is       *)
(* called again and again.                                                 *)
(***************************************************************************)
Init ==
  /\ errors = <<>>
  /\ content = Undef
  /\ result = NoResult
  /\ dirty = FALSE
  /\ options = Construct(Undef)
  /\ rarg = Undef
  /\ rresult = NoRender
  /\ NewInstance
  /\ NoDocuments
  /\ NewPage("problem")

Validate(c) ==
  LET a == validate(errors, c)
  IN /\ errors' = a.errs
     /\ content' = c
     /\ result' = IF a.thr THEN ThrewResult ELSE Returned(getResult(a.errs))
     /\ dirty' = (errors # <<>>)
     /\ UNCHANGED <<rendererVars, frameVars, idVars, editorVars>>

Next == \E c \in Contents : Validate(c)

Spec == Init /\ [][Next]_vars

(***************************************************************************)
(* The renderer: a renderer is constructed with some options and is handed *)
(* one argument, to which one of its entry points is applied.              *)
(***************************************************************************)
InitRender ==
  /\ errors = <<>>
  /\ content = Undef
  /\ result = NoResult
  /\ dirty = FALSE
  /\ options \in {Construct(o) : o \in OptionCands}
  /\ rarg \in Contents \cup BlockArrays \cup Texts
  /\ rresult = NoRender
  /\ NewInstance
  /\ NoDocuments
  /\ NewPage("problem")

\* renderer.render(rarg)
Render ==
  /\ rresult.call = "none"
  /\ rarg \in Contents
  /\ rresult' = Rendered("render", render(options, rarg))
  /\ UNCHANGED <<validatorVars, options, rarg, frameVars, idVars, editorVars>>

\* renderer.renderBlocks(rarg)
RenderBlocks ==
  /\ rresult.call = "none"
  /\ rarg \in BlockArrays
  /\ rresult' = Rendered("renderBlocks", renderBlocks(options, rarg))
  /\ UNCHANGED <<validatorVars, options, rarg, frameVars, idVars, editorVars>>

\* if (isValidContent(data)) { const html = renderToHTML(data); }
RenderIfValid ==
  /\ rresult.call = "none"
  /\ rarg \in Contents
  /\ rresult' =
       IF validateContent(rarg).thr
       THEN [call |-> "guarded", status |-> "validate threw", out |-> <<>>]
       ELSE IF ~isValidContent(rarg)
       THEN [call |-> "guarded", status |-> "rejected", out |-> <<>>]
       ELSE Rendered("guarded", renderToHTML(rarg, Undef))
  /\ UNCHANGED <<validatorVars, options, rarg, frameVars, idVars, editorVars>>

\* this.escapeHtml(rarg), as the render methods call it on a string
EscapeHtml ==
  /\ rresult.call = "none"
  /\ rarg \in Texts
  /\ rresult' = Rendered("escapeHtml", escapeHtml(rarg))
  /\ UNCHANGED <<validatorVars, options, rarg, frameVars, idVars, editorVars>>

NextRender == Render \/ RenderBlocks \/ RenderIfValid \/ EscapeHtml

SpecRender == InitRender /\ [][NextRender]_vars

(***************************************************************************)
(* The result objects of one validator instance.  getResult puts the       *)
(* array this.errors refers to into the result, so a result and the        *)
(* instance hold the same array until the next call assigns this.errors.   *)
(***************************************************************************)
\* the contents this model hands to the successive calls
FrameContents ==
  {Undef,
   Content(Meta(FullMeta), ValidStatement, Undef),
   Content(Undef, ValidStatement, Undef),
   Content(Meta(FullMeta), Arr(<<>>), Undef),
   Content(Undef, Undef, Arr(<<Num(1)>>)),
   Content(Meta(FullMeta),
           Arr(<<Block(S_paragraph, [text |-> Num(1)]),
                 Obj([type |-> ThrowingType,
                      data |-> Obj([text |-> Str(C_hi)])])>>), Undef)}

\* the accumulator emptied in place, this.errors.length = 0
ResetInstance_inPlace(h, e) ==
  [heap |-> [h EXCEPT ![e] = <<>>], errors |-> e]

\* this.errors = []: a new array, to which this.errors now refers
ResetInstance(h, e) ==
  [heap |-> Append(h, <<>>), errors |-> Len(h) + 1]

\* validate(c) on the instance: the pushes of the call go to the array
\* this.errors refers to, and a call that returns hands out that array
ValidateOnInstance(c) ==
  /\ Len(heap) <= MaxCalls
  /\ Len(held) < MaxCalls
  /\ LET i == ResetInstance(heap, thisErrors)
         a == validate(i.heap[i.errors], c)
         r == getResult(a.errs)
     IN /\ heap' = [i.heap EXCEPT ![i.errors] = a.errs]
        /\ thisErrors' = i.errors
        /\ held' = IF a.thr THEN held
                   ELSE Append(held,
                               [valid |-> r.valid, errors |-> i.errors,
                                then |-> r])
  /\ UNCHANGED <<validatorVars, rendererVars, idVars, editorVars>>

NextFrame == \E c \in FrameContents : ValidateOnInstance(c)

SpecFrame == Init /\ [][NextFrame]_vars

(***************************************************************************)
(* The remote collections.  saveDraft and publishContent of a client that  *)
(* has no id entered ask getNextId for one and then write their document;  *)
(* the query and the write are two requests, between which the requests    *)
(* of the other clients are served.                                        *)
(***************************************************************************)
\* contentType === 'lesson' ? 'lessons' : 'problems'
collectionName(contentType) ==
  IF contentType = "lesson" THEN "lessons" ELSE "problems"

\* the ids of the documents of a collection
IdsOf(docs, coll) == {d.id : d \in {e \in docs : e.coll = coll}}

\* orderBy('id', 'desc'), limit(1)
Highest(ids) == CHOOSE x \in ids : \A y \in ids : y <= x

\* getNextId when the query is answered
getNextId(docs, contentType) ==
  LET ids == IdsOf(docs, collectionName(contentType))
  IN IF ids # {} THEN Highest(ids) + 1 ELSE 1

\* getNextId when the query fails: Date.now() % 10000, of which the model
\* takes the values from 1 to MaxId
FallbackIds == 1..MaxId

\* setDoc(doc(db, collectionName, String(id)), docData): the document of
\* this id in the collection is created or replaced
setDoc(docs, coll, id, by, isDraft) ==
  {d \in docs : ~(d.coll = coll /\ d.id = id)}
    \cup {[coll |-> coll, id |-> id, by |-> by, draft |-> isDraft]}

\* saveDraft or publishContent of client p, with a title, content and no
\* id entered, up to the query of getNextId
Begin(p, kind, t) ==
  /\ ops[p].pc = "idle"
  /\ ops' = [ops EXCEPT ![p] = [pc |-> "reading", kind |-> kind,
                                contentType |-> t, id |-> 0]]
  /\ UNCHANGED <<validatorVars, rendererVars, frameVars, store, editorVars>>

\* the query is answered and the id is put into the form
GetDocs(p) ==
  /\ ops[p].pc = "reading"
  /\ ops' = [ops EXCEPT ![p].pc = "writing",
                        ![p].id = getNextId(store, ops[p].contentType)]
  /\ UNCHANGED <<validatorVars, rendererVars, frameVars, store, editorVars>>

\* the query fails and getNextId falls back to the clock
GetDocsFails(p) ==
  /\ ops[p].pc = "reading"
  /\ \E id \in FallbackIds :
       ops' = [ops EXCEPT ![p].pc = "writing", ![p].id = id]
  /\ UNCHANGED <<validatorVars, rendererVars, frameVars, store, editorVars>>

\* the write is served: the document is stored, draft or published
SetDoc(p) ==
  /\ ops[p].pc = "writing"
  /\ store' = setDoc(store, collectionName(ops[p].contentType), ops[p].id,
                     p, ops[p].kind = "saveDraft")
  /\ ops' = [ops EXCEPT ![p].pc = "done"]
  /\ UNCHANGED <<validatorVars, rendererVars, frameVars, editorVars>>

\* the write fails: the catch clause reports it
SetDocFails(p) ==
  /\ ops[p].pc = "writing"
  /\ ops' = [ops EXCEPT ![p].pc = "failed"]
  /\ UNCHANGED <<validatorVars, rendererVars, frameVars, store, editorVars>>

NextIds ==
  \E p \in Clients :
    \/ \E kind \in {"saveDraft", "publishContent"}, t \in ContentTypes :
         Begin(p, kind, t)
    \/ GetDocs(p)
    \/ GetDocsFails(p)
    \/ SetDoc(p)
    \/ SetDocFails(p)

SpecIds == Init /\ [][NextIds]_vars

(***************************************************************************)
(* The editor page.  The handlers of the page run one at a time; a handler *)
(* that awaits a request of the remote store is split at the await, and    *)
(* the timer of autoSaveDraft fires at any time after it is armed.         *)
(***************************************************************************)
Loaded == mainEditor = "editor"

\* a solution item of this id is in the element 'solutions-list'
InList(id, list) == \E k \in 1..Len(list) : list[k] = id

\* the sequence without the entries of this id
Filtered(list, id) == SelectSeq(list, LAMBDA x : x # id)

\* gatherAllData(): the data it resolves with, or the rejection when the
\* item of a solution editor is not in the document
gatherAllData(d, editors, blocks) ==
  IF /\ d.contentType = "problem"
     /\ \E k \in 1..Len(editors) : ~InList(editors[k], d.solutionsList)
  THEN [status |-> "rejected", statement |-> 0, solutions |-> <<>>]
  ELSE [status |-> "resolved", statement |-> blocks,
        solutions |-> IF d.contentType = "problem" THEN editors ELSE <<>>]

\* what the actions of the user make of phase and since
AfterSolutionOp == IF phase = "solutions" THEN "solutions" ELSE "other"
AfterClear == IF phase \in {"solutions", "cleared"} THEN "cleared" ELSE "other"
AfterChange == IF since = "none" THEN "none" ELSE "changed"

\* DOMContentLoaded: initializeMainEditor, setupContentTypeListener and
\* checkForDraft, which finds no draft
DOMContentLoaded ==
  /\ mainEditor = "null"
  /\ mainEditor' = "editor"
  /\ gathered' = NotGathered
  /\ UNCHANGED <<validatorVars, rendererVars, frameVars, idVars,
                 solutionEditors, solutionCount, autoSaveTimeout, window,
                 dom, mainBlocks, draft, publish, phase, since>>

\* the user edits the main editor, whose onChange calls autoSaveDraft
ChangeMain(n) ==
  /\ Loaded
  /\ n # mainBlocks
  /\ mainBlocks' = n
  /\ autoSaveTimeout' = "armed"
  /\ phase' = "other"
  /\ since' = AfterChange
  /\ gathered' = NotGathered
  /\ UNCHANGED <<validatorVars, rendererVars, frameVars, idVars, mainEditor,
                 solutionEditors, solutionCount, window, dom, draft, publish>>

\* the user edits a solution editor, whose onChange calls autoSaveDraft
ChangeSolution(id) ==
  /\ Loaded
  /\ InList(id, dom.solutionsList)
  /\ autoSaveTimeout' = "armed"
  /\ phase' = "other"
  /\ since' = AfterChange
  /\ gathered' = NotGathered
  /\ UNCHANGED <<validatorVars, rendererVars, frameVars, idVars, mainEditor,
                 solutionEditors, solutionCount, window, dom, mainBlocks,
                 draft, publish>>

\* the user types the title
SetTitle(t) ==
  /\ Loaded
  /\ t # dom.title
  /\ dom' = [dom EXCEPT !.title = t]
  /\ phase' = "other"
  /\ since' = AfterChange
  /\ gathered' = NotGathered
  /\ UNCHANGED <<validatorVars, rendererVars, frameVars, idVars, mainEditor,
                 solutionEditors, solutionCount, autoSaveTimeout, window,
                 mainBlocks, draft, publish>>

\* the user selects the other content type
SetContentType(t) ==
  /\ Loaded
  /\ t # dom.contentType
  /\ dom' = [dom EXCEPT !.contentType = t]
  /\ since' = AfterChange
  /\ gathered' = NotGathered
  /\ UNCHANGED <<validatorVars, rendererVars, frameVars, idVars, mainEditor,
                 solutionEditors, solutionCount, autoSaveTimeout, window,
                 mainBlocks, draft, publish, phase>>

\* window.addSolution()
AddSolution ==
  /\ Loaded
  /\ solutionCount < MaxAdds
  /\ solutionCount' = solutionCount + 1
  /\ dom' = [dom EXCEPT !.solutionsList = Append(@, solutionCount + 1)]
  /\ solutionEditors' = Append(solutionEditors, solutionCount + 1)
  /\ phase' = AfterSolutionOp
  /\ since' = AfterChange
  /\ gathered' = NotGathered
  /\ UNCHANGED <<validatorVars, rendererVars, frameVars, idVars, mainEditor,
                 autoSaveTimeout, window, mainBlocks, draft, publish>>

\* window.removeSolution(solutionId), confirmed, from the button of an item
RemoveSolution(id) ==
  /\ Loaded
  /\ InList(id, dom.solutionsList)
  /\ dom' = [dom EXCEPT !.solutionsList = Filtered(@, id)]
  /\ solutionEditors' = Filtered(solutionEditors, id)
  /\ window' = [window EXCEPT !.sameArray = FALSE]
  /\ autoSaveTimeout' = "armed"
  /\ phase' = AfterSolutionOp
  /\ since' = AfterChange
  /\ gathered' = NotGathered
  /\ UNCHANGED <<validatorVars, rendererVars, frameVars, idVars, mainEditor,
                 solutionCount, mainBlocks, draft, publish>>

\* window.clearAll(), confirmed
ClearAll ==
  /\ Loaded
  /\ dom' = [dom EXCEPT !.contentId = 0, !.title = "",
                        !.solutionsList = <<>>]
  /\ mainBlocks' = IF window.mainEditor # "null" THEN 0 ELSE mainBlocks
  /\ window' = [window EXCEPT !.sameArray = FALSE]
  /\ draft' = NoDraft
  /\ phase' = AfterClear
  /\ since' = AfterChange
  /\ gathered' = NotGathered
  /\ UNCHANGED <<validatorVars, rendererVars, frameVars, idVars, mainEditor,
                 solutionEditors, solutionCount, autoSaveTimeout, publish>>

\* window.gatherAllData(), as previewContent calls it
GatherAllData ==
  /\ Loaded
  /\ LET data == gatherAllData(dom, solutionEditors, mainBlocks)
     IN gathered' = [status |-> data.status, statement |-> data.statement,
                     solutions |-> data.solutions, phase |-> phase]
  /\ UNCHANGED <<validatorVars, rendererVars, frameVars, idVars, mainEditor,
                 solutionEditors, solutionCount, autoSaveTimeout, window,
                 dom, mainBlocks, draft, publish, phase, since>>

\* the timer of autoSaveDraft fires: the gathered data is stored as the
\* draft, and a rejection is logged
AutoSaveFires ==
  /\ autoSaveTimeout = "armed"
  /\ autoSaveTimeout' = "none"
  /\ LET data == gatherAllData(dom, solutionEditors, mainBlocks)
     IN draft' = IF data.status = "resolved"
                 THEN [present |-> TRUE]
                 ELSE draft
  /\ gathered' = NotGathered
  /\ UNCHANGED <<validatorVars, rendererVars, frameVars, idVars, mainEditor,
                 solutionEditors, solutionCount, window, dom, mainBlocks,
                 publish, phase, since>>

\* window.publishContent() up to its first request: the data is gathered,
\* has a title and a statement, and the user confirms
PublishClick ==
  /\ Loaded
  /\ publish.pc = "idle"
  /\ gatherAllData(dom, solutionEditors, mainBlocks).status = "resolved"
  /\ dom.title # ""
  /\ mainBlocks > 0
  /\ publish' = [pc |-> IF dom.contentId = 0 THEN "reading" ELSE "writing",
                 contentType |-> dom.contentType, id |-> dom.contentId]
  /\ phase' = "other"
  /\ since' = "clicked"
  /\ gathered' = NotGathered
  /\ UNCHANGED <<validatorVars, rendererVars, frameVars, idVars, mainEditor,
                 solutionEditors, solutionCount, autoSaveTimeout, window,
                 dom, mainBlocks, draft>>

\* getNextId returns, answered or not, and the id is put into the form
PublishGetDocs ==
  /\ publish.pc = "reading"
  /\ \E id \in {getNextId(store, publish.contentType)} \cup FallbackIds :
       /\ id <= MaxId
       /\ publish' = [publish EXCEPT !.pc = "writing", !.id = id]
       /\ dom' = [dom EXCEPT !.contentId = id]
  /\ gathered' = NotGathered
  /\ UNCHANGED <<validatorVars, rendererVars, frameVars, idVars, mainEditor,
                 solutionEditors, solutionCount, autoSaveTimeout, window,
                 mainBlocks, draft, phase, since>>

\* the write is served: localStorage.removeItem('az-math-draft')
PublishSetDoc ==
  /\ publish.pc = "writing"
  /\ store' = setDoc(store, collectionName(publish.contentType), publish.id,
                     0, FALSE)
  /\ draft' = NoDraft
  /\ publish' = [publish EXCEPT !.pc = "idle"]
  /\ since' = IF since = "clicked" THEN "published" ELSE since
  /\ gathered' = NotGathered
  /\ UNCHANGED <<validatorVars, rendererVars, frameVars, ops, mainEditor,
                 solutionEditors, solutionCount, autoSaveTimeout, window,
                 dom, mainBlocks, phase>>

\* the write fails: the catch clause reports it
PublishFails ==
  /\ publish.pc = "writing"
  /\ publish' = [publish EXCEPT !.pc = "idle"]
  /\ since' = "none"
  /\ gathered' = NotGathered
  /\ UNCHANGED <<validatorVars, rendererVars, frameVars, idVars, mainEditor,
                 solutionEditors, solutionCount, autoSaveTimeout, window,
                 dom, mainBlocks, draft, phase>>

InitEditor ==
  /\ errors = <<>>
  /\ content = Undef
  /\ result = NoResult
  /\ dirty = FALSE
  /\ options = Construct(Undef)
  /\ rarg = Undef
  /\ rresult = NoRender
  /\ NewInstance
  /\ NoDocuments
  /\ \E t \in ContentTypes : NewPage(t)

NextEditor ==
  \/ DOMContentLoaded
  \/ \E n \in 0..MaxMainBlocks : ChangeMain(n)
  \/ \E id \in 1..MaxAdds : ChangeSolution(id)
  \/ \E t \in {"", "t"} : SetTitle(t)
  \/ \E t \in ContentTypes : SetContentType(t)
  \/ AddSolution
  \/ \E id \in 1..MaxAdds : RemoveSolution(id)
  \/ ClearAll
  \/ GatherAllData
  \/ AutoSaveFires
  \/ PublishClick
  \/ PublishGetDocs
  \/ PublishSetDoc
  \/ PublishFails

SpecEditor == InitEditor /\ [][NextEditor]_vars

(***************************************************************************)
(* The data model of section 3 of the specification, as predicates on      *)
(* values.                                                                 *)
(***************************************************************************)
IsString(v) == v.k = "string"
IsNonEmptyString(v) == v.k = "string" /\ Len(v.s) >= 1
IsAbsent(v) == v.k = "undefined"

WellFormedMetadata(m) ==
  /\ m.k = "object"
  /\ Get(m, "id").k = "number" /\ Get(m, "id").n >= 1
  /\ IsNonEmptyString(Get(m, "title")) /\ Len(Get(m, "title").s) <= 200
  /\ Includes(<<S_problem, S_lesson>>, Get(m, "contentType"))
  /\ Includes(<<S_Algebra, S_Geometry, S_NumberTheory, S_Combinatorics,
                S_Calculus, S_General>>, Get(m, "category"))
  /\ Includes(<<S_Easy, S_Medium, S_Hard>>, Get(m, "difficulty"))
  /\ Get(m, "tags").k = "array" /\ Len(Get(m, "tags").a) <= 10
  /\ \A i \in 1..Len(Get(m, "tags").a) :
       /\ IsNonEmptyString(Get(m, "tags").a[i])
       /\ Len(Get(m, "tags").a[i].s) <= 50
  /\ IsString(Get(m, "author"))
  /\ Get(m, "draft").k = "boolean"
  /\ IsString(Get(m, "timestamp"))

IsContentUrl(v) ==
  /\ IsNonEmptyString(v)
  /\ URLParses(v.s) \/ StartsWith(v.s, S_slash) \/ StartsWith(v.s, S_dataColon)

\* a block of one of the six variants: the required fields present, the
\* optional fields absent or of their type, the constraints satisfied
WellFormedBlock(b) ==
  /\ b.k = "object"
  /\ Get(b, "data").k = "object"
  /\ LET type == Get(b, "type")
         d == Get(b, "data")
     IN \/ /\ IsStr(type, S_paragraph)
           /\ IsNonEmptyString(Get(d, "text"))
        \/ /\ IsStr(type, S_header)
           /\ IsNonEmptyString(Get(d, "text"))
           /\ Get(d, "level").k = "number"
           /\ Get(d, "level").n \in 1..6
        \/ /\ IsStr(type, S_list)
           /\ Includes(<<S_ordered, S_unordered>>, Get(d, "style"))
           /\ Get(d, "items").k = "array"
           /\ Len(Get(d, "items").a) >= 1
           /\ \A i \in 1..Len(Get(d, "items").a) : IsString(Get(d, "items").a[i])
        \/ /\ IsStr(type, S_quote)
           /\ IsNonEmptyString(Get(d, "text"))
           /\ IsAbsent(Get(d, "caption")) \/ IsString(Get(d, "caption"))
        \/ /\ IsStr(type, S_math)
           /\ IsNonEmptyString(Get(d, "latex"))
           /\ Get(d, "display").k = "boolean"
        \/ /\ IsStr(type, S_image)
           /\ IsContentUrl(Get(d, "url"))
           /\ IsAbsent(Get(d, "alt")) \/ IsString(Get(d, "alt"))
           /\ IsAbsent(Get(d, "caption")) \/ IsString(Get(d, "caption"))
           /\ \/ IsAbsent(Get(d, "alignment"))
              \/ Includes(<<S_center, S_floatLeft, S_floatRight>>,
                          Get(d, "alignment"))
           /\ \/ IsAbsent(Get(d, "size"))
              \/ Includes(<<S_small, S_medium, S_large, S_full>>,
                          Get(d, "size"))

WellFormedBlocks(v, least) ==
  /\ v.k = "array"
  /\ Len(v.a) >= least
  /\ \A i \in 1..Len(v.a) : WellFormedBlock(v.a[i])

\* a solution: a title of 1 to 100 characters and zero or more blocks
WellFormedSolution(z) ==
  /\ z.k = "object"
  /\ IsNonEmptyString(Get(z, "title")) /\ Len(Get(z, "title").s) <= 100
  /\ WellFormedBlocks(Get(z, "blocks"), 0)

WellFormedContent(c) ==
  /\ c.k = "object"
  /\ WellFormedMetadata(Get(c, "metadata"))
  /\ WellFormedBlocks(Get(c, "statement"), 1)
  /\ \/ IsAbsent(Get(c, "solutions"))
     \/ /\ Get(c, "solutions").k = "array"
        /\ \A i \in 1..Len(Get(c, "solutions").a) :
             WellFormedSolution(Get(c, "solutions").a[i])

\* the path and the code of every error, in order
PathCodes(errs) == [i \in 1..Len(errs) |-> <<errs[i].path, errs[i].code>>]

Called == result.status # "none"

(***************************************************************************)
(* C1.  Round-trip validity: for every input built only from the data      *)
(* model of section 3 with all constraints satisfied (a solution carrying  *)
(* a title of 1 to 100 characters and zero or more valid blocks), validate *)
(* returns valid = true and an empty errors list.                          *)
(***************************************************************************)
C1_RoundTripValidity ==
  (Called /\ WellFormedContent(content))
    => /\ result.status = "returned"
       /\ result.valid
       /\ result.errors = <<>>

(***************************************************************************)
(* C2.  validate is total: for every JSON-like input it returns a          *)
(* ValidationResult and never raises an exception.                         *)
(***************************************************************************)
C2_ValidateNeverThrows == Called => result.status = "returned"

(***************************************************************************)
(* C3.  For every input x for which validate(x).valid is true, render(x)   *)
(* with the default options returns markup and does not raise.             *)
(***************************************************************************)
C3_ValidInputRenders ==
  (rresult.call = "guarded" /\ rresult.status \notin {"rejected", "validate threw"})
    => rresult.status = "returned"

Contains(out, atom) == \E i \in 1..Len(out) : out[i] = atom

\* no optional field of the blocks of the array is present
OptionalFieldsAbsent(blocks) ==
  \A i \in 1..Len(blocks.a) :
    LET d == Get(blocks.a[i], "data")
    IN \A f \in {"caption", "alt", "alignment", "size"} : IsAbsent(Get(d, f))

(***************************************************************************)
(* C4.  renderBlocks does not raise on a block whose required data fields  *)
(* are present and whose optional fields are absent: it returns markup,    *)
(* and an absent caption emits no caption element.                         *)
(***************************************************************************)
C4_OptionalFieldsAbsentRenders ==
  (/\ rresult.call = "renderBlocks"
   /\ WellFormedBlocks(rarg, 1)
   /\ OptionalFieldsAbsent(rarg))
    => /\ rresult.status = "returned"
       /\ ~Contains(rresult.out, "<span class=\"image-caption\">")
       /\ ~Contains(rresult.out, "<footer class=\"quote-caption\">")

IsImageBlock(b) == b.k = "object" /\ IsStr(Get(b, "type"), S_image)

\* the number of atoms of out equal to atom
Occurrences(out, atom) == Cardinality({i \in 1..Len(out) : out[i] = atom})

(***************************************************************************)
(* C5.  Float isolation: for an image block, renderBlocks emits the        *)
(* image-block fragment with no surrounding content-block container        *)
(* exactly when alignment is float-left or float-right, and inside a       *)
(* content-block container when alignment is center or absent.             *)
(***************************************************************************)
C5_FloatIsolation ==
  (/\ rresult.call = "renderBlocks"
   /\ WellFormedBlocks(rarg, 1)
   /\ Len(rarg.a) = 1
   /\ IsImageBlock(rarg.a[1]))
    => /\ rresult.status = "returned"
       /\ Occurrences(rresult.out, "<div class=\"image-block ") = 1
       /\ IsFloat(Get(Get(rarg.a[1], "data"), "alignment"))
            <=> ~Contains(rresult.out, "<div class=\"content-block\">")

\* a fresh accumulator
EmptyAcc == [thr |-> FALSE, errs |-> <<>>]

\* the concatenation of the sequences of the sequence ss
RECURSIVE Flatten(_)
Flatten(ss) == IF Len(ss) = 0 THEN <<>> ELSE Head(ss) \o Flatten(Tail(ss))

\* metadata that is valid except that its field f is the field f of m
FieldAlone(m, f) ==
  IF IsAbsent(Get(m, f)) THEN Meta(Without(FullMeta, {f}))
  ELSE Meta([FullMeta EXCEPT ![f] = Get(m, f)])

\* tags that are valid except that the i-th element is that of tags
TagAlone(tags, i) ==
  Arr([j \in 1..Len(tags.a) |-> IF j = i THEN tags.a[j] ELSE Str(<<"t">>)])

\* what validate reports for the tags when every element is checked beside
\* valid other elements
TagsDiagnosis(tags) ==
  IF ~IsArray(tags) \/ Len(tags.a) = 0
  THEN validateMetadata(Meta([FullMeta EXCEPT !.tags = tags]), EmptyAcc).errs
  ELSE LET alone(i) == validateMetadata(
                         Meta([FullMeta EXCEPT !.tags = TagAlone(tags, i)]),
                         EmptyAcc).errs
           whole == alone(1)
       IN (IF Len(tags.a) > TAGS_MAX THEN <<whole[1]>> ELSE <<>>)
            \o Flatten([i \in 1..Len(tags.a) |->
                          SelectSeq(alone(i), LAMBDA e : e.code # "ARRAY_TOO_LONG")])

\* what validate reports for metadata m when every field is checked beside
\* valid other fields
MetadataDiagnosis(m) ==
  IF m.k # "object"
  THEN validateContent(Content(m, ValidStatement, Undef)).errs
  ELSE Flatten([i \in 1..5 |->
                  validateMetadata(
                    FieldAlone(m, <<"id", "title", "contentType", "category",
                                    "difficulty">>[i]), EmptyAcc).errs])
         \o (IF IsAbsent(Get(m, "tags")) THEN <<>>
             ELSE TagsDiagnosis(Get(m, "tags")))

\* what validate reports for the statement s beside valid other sections,
\* every element of a block array being checked on its own
StatementDiagnosis(s) ==
  IF ~IsArray(s) \/ Len(s.a) = 0
  THEN validateContent(Content(Meta(FullMeta), s, Undef)).errs
  ELSE Flatten([i \in 1..Len(s.a) |->
                  validateBlock(s.a[i], IndexPath("statement", i), EmptyAcc).errs])

SolutionsDiagnosis(z) ==
  IF ~IsArray(z) \/ Len(z.a) = 0
  THEN validateContent(Content(Meta(FullMeta), ValidStatement, z)).errs
  ELSE Flatten([i \in 1..Len(z.a) |->
                  validateSolution(z.a[i], IndexPath("solutions", i),
                                   EmptyAcc).errs])

(***************************************************************************)
(* C6.  Completeness of diagnosis: for an object input, an error found in  *)
(* one section, field or array element never suppresses the checks of its  *)
(* siblings: the errors returned are those of the metadata fields, of the  *)
(* statement elements and of the solutions elements, each checked beside   *)
(* valid siblings, all of them, in order.                                  *)
(***************************************************************************)
C6_CompleteDiagnosis ==
  (Called /\ content.k = "object")
    => /\ result.status = "returned"
       /\ result.errors =
            MetadataDiagnosis(Get(content, "metadata"))
              \o StatementDiagnosis(Get(content, "statement"))
              \o SolutionsDiagnosis(Get(content, "solutions"))

(***************************************************************************)
(* C7.  Every validate call on the instance returns what a freshly         *)
(* constructed validator returns for the same input: no error of an        *)
(* earlier call appears in the result of a later call.                     *)
(***************************************************************************)
C7_NoLeakBetweenCalls ==
  /\ result.status = "returned"
       => /\ ~validateContent(content).thr
          /\ result = Returned(getResult(validateContent(content).errs))
  /\ result.status = "threw" => validateContent(content).thr

\* a call that returned valid = true although the accumulator still held
\* the errors of the call before it
C7_Witness ==
  /\ dirty
  /\ result.status = "returned"
  /\ result.valid
  /\ content.k = "object"

IsPrimitiveRoot(c) ==
  c.k \in {"undefined", "null", "boolean", "number", "string"}

(***************************************************************************)
(* C8.  When the input is null, undefined, a boolean, a number or a        *)
(* string, the result has valid = false and exactly one error, with path   *)
(* 'root' and code INVALID_TYPE.                                           *)
(***************************************************************************)
C8_PrimitiveRootRejected ==
  (Called /\ IsPrimitiveRoot(content))
    => /\ result.status = "returned"
       /\ ~result.valid
       /\ PathCodes(result.errors) = <<<<"root", "INVALID_TYPE">>>>

\* validate was called on a non-empty string, which is truthy
C8_Witness ==
  /\ result.status = "returned"
  /\ content.k = "string"
  /\ Len(content.s) > 0
  /\ Len(result.errors) = 1

\* the only element of the array v, when v is an array of one element
Only(v) == IF IsArray(v) /\ Len(v.a) = 1 THEN v.a[1] ELSE Undef

(***************************************************************************)
(* C9.  Wherever an object is expected and an array is supplied (the root, *)
(* a block, a block's data, a solutions element), validate reports exactly *)
(* one error INVALID_TYPE at that position's path and checks nothing below *)
(* it.                                                                     *)
(***************************************************************************)
C9_ArrayIsNotAnObject ==
  /\ (Called /\ content.k = "array")
       => PathCodes(result.errors) = <<<<"root", "INVALID_TYPE">>>>
  /\ (/\ Called
      /\ content.k = "object"
      /\ Get(content, "metadata") = Meta(FullMeta)
      /\ IsAbsent(Get(content, "solutions"))
      /\ Only(Get(content, "statement")).k = "array")
       => PathCodes(result.errors) = <<<<"statement[0]", "INVALID_TYPE">>>>
  /\ (/\ Called
      /\ content.k = "object"
      /\ Get(content, "metadata") = Meta(FullMeta)
      /\ IsAbsent(Get(content, "solutions"))
      /\ isValidBlockType(Get(Only(Get(content, "statement")), "type"))
      /\ Get(Only(Get(content, "statement")), "data").k = "array")
       => PathCodes(result.errors) = <<<<"statement[0].data", "INVALID_TYPE">>>>
  /\ (/\ Called
      /\ content.k = "object"
      /\ Get(content, "metadata") = Meta(FullMeta)
      /\ Get(content, "statement") = ValidStatement
      /\ Only(Get(content, "solutions")).k = "array")
       => PathCodes(result.errors) = <<<<"solutions[0]", "INVALID_TYPE">>>>

(***************************************************************************)
(* C10.  In every result returned by validate, valid is true if and only   *)
(* if the errors list is empty.                                            *)
(***************************************************************************)
C10_ValidIffNoErrors ==
  result.status = "returned" => (result.valid <=> result.errors = <<>>)

\* a result with errors was returned
C10_Witness ==
  /\ result.status = "returned"
  /\ Len(result.errors) >= 2
  /\ ~result.valid

\* validate was called on an object whose metadata is valid and whose
\* solutions are absent
ValidMetadataOnly ==
  /\ Called
  /\ content.k = "object"
  /\ Get(content, "metadata").k = "object"
  /\ validateMetadata(Get(content, "metadata"), EmptyAcc).errs = <<>>
  /\ IsAbsent(Get(content, "solutions"))

(***************************************************************************)
(* C11.  Empty-array distinctness: with valid metadata, statement = []     *)
(* yields exactly one error, ARRAY_EMPTY at path 'statement', and an       *)
(* absent statement yields exactly one error, MISSING_REQUIRED at path     *)
(* 'root'; the two cases never produce the same code.                      *)
(***************************************************************************)
C11_EmptyArrayDistinctness ==
  ValidMetadataOnly
    => /\ Get(content, "statement") = Arr(<<>>)
            => /\ result.status = "returned"
               /\ PathCodes(result.errors) = <<<<"statement", "ARRAY_EMPTY">>>>
       /\ IsAbsent(Get(content, "statement"))
            => /\ result.status = "returned"
               /\ PathCodes(result.errors) = <<<<"root", "MISSING_REQUIRED">>>>

\* validate returned for an empty statement beside valid metadata
C11_Witness ==
  /\ ValidMetadataOnly
  /\ Get(content, "statement") = Arr(<<>>)
  /\ result.status = "returned"
  /\ Len(result.errors) = 1

(***************************************************************************)
(* C12.  Whenever the input object has a statement property that is        *)
(* present but is not an array (a string, the empty string included, a     *)
(* number, 0 included, a boolean, false included, null, or a non-array     *)
(* object), validate reports for statement exactly one error, INVALID_TYPE *)
(* at path 'statement', and no MISSING_REQUIRED at 'root'.                 *)
(***************************************************************************)
C12_PresentNonArrayStatement ==
  (/\ ValidMetadataOnly
   /\ ~IsAbsent(Get(content, "statement"))
   /\ ~IsArray(Get(content, "statement")))
    => /\ result.status = "returned"
       /\ PathCodes(result.errors) = <<<<"statement", "INVALID_TYPE">>>>

\* validate was called on valid metadata and a statement of one header
\* block whose text is a non-empty string
OneHeaderBlock ==
  /\ ValidMetadataOnly
  /\ Only(Get(content, "statement")).k = "object"
  /\ IsStr(Get(Only(Get(content, "statement")), "type"), S_header)
  /\ Get(Only(Get(content, "statement")), "data").k = "object"
  /\ IsNonEmptyString(Get(Get(Only(Get(content, "statement")), "data"), "text"))

\* the level of that header block
HeaderLevel == Get(Get(Only(Get(content, "statement")), "data"), "level")

(***************************************************************************)
(* C13.  For a header block at path P with a non-empty string text: an     *)
(* absent level yields exactly one error, MISSING_REQUIRED at              *)
(* P.data.level; a level that is a number outside [1,6] (0, negative       *)
(* numbers, 7 and 9 included) yields exactly one error, INVALID_VALUE at   *)
(* P.data.level; an integer level from 1 to 6 yields no error.             *)
(***************************************************************************)
C13_HeaderLevel ==
  OneHeaderBlock
    => /\ result.status = "returned"
       /\ IsAbsent(HeaderLevel)
            => PathCodes(result.errors)
                 = <<<<"statement[0].data.level", "MISSING_REQUIRED">>>>
       /\ (HeaderLevel.k = "number" /\ HeaderLevel.n \notin 1..6)
            => PathCodes(result.errors)
                 = <<<<"statement[0].data.level", "INVALID_VALUE">>>>
       /\ (HeaderLevel.k = "number" /\ HeaderLevel.n \in 1..6)
            => result.errors = <<>>

\* an error was reported at the path
ReportedAt(path) == \E i \in 1..Len(result.errors) : result.errors[i].path = path

\* the error code was reported at the path
Reported(path, code) ==
  \E i \in 1..Len(result.errors) :
    result.errors[i].path = path /\ result.errors[i].code = code

\* the rule of an optional enum field whose value is v: nothing is reported
\* when it is absent or a member, INVALID_VALUE when it is anything else
OptionalEnumRule(v, path, members) ==
  /\ IsAbsent(v) => ~ReportedAt(path)
  /\ (~IsAbsent(v) /\ ~Includes(members, v)) => Reported(path, "INVALID_VALUE")
  /\ Includes(members, v) => ~ReportedAt(path)

\* the data of the only block of the statement
OnlyBlockData == Get(Only(Get(content, "statement")), "data")

\* the statement is one image block with a data object
OneImageBlock ==
  /\ Only(Get(content, "statement")).k = "object"
  /\ IsStr(Get(Only(Get(content, "statement")), "type"), S_image)
  /\ OnlyBlockData.k = "object"

(***************************************************************************)
(* C14.  For each optional enum field (metadata.category,                  *)
(* metadata.difficulty, image data.alignment, image data.size): when the   *)
(* field is absent no error is reported for it; whenever it is present     *)
(* with a value that is not a member of its enum (the empty string, 0,     *)
(* false and null included) validate reports INVALID_VALUE at the field's  *)
(* path; a member value yields no error.                                   *)
(***************************************************************************)
C14_OptionalEnums ==
  (Called /\ content.k = "object" /\ result.status = "returned")
    => /\ Get(content, "metadata").k = "object"
            => /\ OptionalEnumRule(Get(Get(content, "metadata"), "category"),
                                   "metadata.category",
                                   <<S_Algebra, S_Geometry, S_NumberTheory,
                                     S_Combinatorics, S_Calculus, S_General>>)
               /\ OptionalEnumRule(Get(Get(content, "metadata"), "difficulty"),
                                   "metadata.difficulty",
                                   <<S_Easy, S_Medium, S_Hard>>)
       /\ OneImageBlock
            => /\ OptionalEnumRule(Get(OnlyBlockData, "alignment"),
                                   "statement[0].data.alignment",
                                   <<S_center, S_floatLeft, S_floatRight>>)
               /\ OptionalEnumRule(Get(OnlyBlockData, "size"),
                                   "statement[0].data.size",
                                   <<S_small, S_medium, S_large, S_full>>)

\* the path of the i-th tag
TagPath(i) == "metadata.tags[" \o ToString(i - 1) \o "]"

\* the paths and codes of the errors reported for metadata.tags and for its
\* first n elements, in order
TagErrors(n) ==
  SelectSeq(PathCodes(result.errors),
            LAMBDA e : e[1] = "metadata.tags" \/ \E i \in 1..n : e[1] = TagPath(i))

\* what is to be reported for the i-th tag
TagRule(tag, i) ==
  IF ~IsString(tag) THEN <<<<TagPath(i), "INVALID_TYPE">>>>
  ELSE IF Len(tag.s) = 0 \/ Len(tag.s) >= 51
  THEN <<<<TagPath(i), "INVALID_LENGTH">>>>
  ELSE <<>>

\* what is to be reported for metadata.tags
TagsRule(tags) ==
  IF IsAbsent(tags) THEN <<>>
  ELSE IF ~IsArray(tags) THEN <<<<"metadata.tags", "INVALID_TYPE">>>>
  ELSE (IF Len(tags.a) >= 11 THEN <<<<"metadata.tags", "ARRAY_TOO_LONG">>>>
        ELSE <<>>)
         \o Flatten([i \in 1..Len(tags.a) |-> TagRule(tags.a[i], i)])

\* the tags of the metadata of the content
ContentTags == Get(Get(content, "metadata"), "tags")

(***************************************************************************)
(* C15.  For metadata.tags: undefined yields no error; a non-array value   *)
(* yields exactly one error, INVALID_TYPE at metadata.tags, and no         *)
(* per-element error; an array of at most 10 strings each of length 1 to   *)
(* 50 yields no error; an array of 11 or more elements yields              *)
(* ARRAY_TOO_LONG at metadata.tags; each non-string element i yields       *)
(* INVALID_TYPE and each string element i of length 0 or of length 51 or   *)
(* more yields INVALID_LENGTH, at metadata.tags[i].                        *)
(***************************************************************************)
C15_TagsRule ==
  (/\ Called
   /\ content.k = "object"
   /\ Get(content, "metadata").k = "object"
   /\ result.status = "returned")
    => TagErrors(IF IsArray(ContentTags) THEN Len(ContentTags.a) ELSE 0)
         = TagsRule(ContentTags)

\* validate returned for tags that hold a non-string, an empty string and a
\* string of 51 characters beside a valid tag
C15_Witness ==
  /\ Called
  /\ result.status = "returned"
  /\ content.k = "object"
  /\ IsArray(ContentTags)
  /\ Len(ContentTags.a) = 4
  /\ Len(TagErrors(4)) = 3
  /\ \E i \in 1..4 : IsString(ContentTags.a[i]) /\ Len(ContentTags.a[i].s) = 51

\* a solution with a title of 1 to 100 characters and no blocks
IsEmptySolution(z) ==
  /\ z.k = "object"
  /\ IsNonEmptyString(Get(z, "title")) /\ Len(Get(z, "title").s) <= 100
  /\ Get(z, "blocks") = Arr(<<>>)

(***************************************************************************)
(* C16.  A solution may carry zero blocks: for content that is otherwise   *)
(* valid, a solution with a valid title and blocks = [] produces no        *)
(* validation error.                                                       *)
(***************************************************************************)
C16_SolutionMayBeEmpty ==
  (/\ Called
   /\ content.k = "object"
   /\ Get(content, "metadata").k = "object"
   /\ validateMetadata(Get(content, "metadata"), EmptyAcc).errs = <<>>
   /\ WellFormedBlocks(Get(content, "statement"), 1)
   /\ IsArray(Get(content, "solutions"))
   /\ Len(Get(content, "solutions").a) >= 1
   /\ \A i \in 1..Len(Get(content, "solutions").a) :
        IsEmptySolution(Get(content, "solutions").a[i]))
    => /\ result.status = "returned"
       /\ result.errors = <<>>

\* the atoms s appear in out, one after the other
Emits(out, s) ==
  \E i \in 0..(Len(out) - Len(s)) : SubSeq(out, i + 1, i + Len(s)) = s

\* the atoms of s between the atoms open and close appear in out
Between(out, open, s, close) == Emits(out, <<open>> \o s \o <<close>>)

\* the string s with each of & < > " ' replaced by its entity
Entities(s) == escapeHtml(Str(s)).out

\* the blocks of every solution of the array z, in order
SolutionBlocks(z) ==
  IF ~IsArray(z) THEN <<>>
  ELSE Flatten([i \in 1..Len(z.a) |->
                  IF IsArray(Get(z.a[i], "blocks"))
                  THEN Get(z.a[i], "blocks").a ELSE <<>>])

\* the blocks that the call rendered
RenderedBlocks ==
  IF rresult.call = "renderBlocks" THEN rarg.a
  ELSE IF rresult.call = "escapeHtml" THEN <<>>
  ELSE Get(rarg, "statement").a \o SolutionBlocks(Get(rarg, "solutions"))

\* the metadata block was rendered
MetadataRendered ==
  \/ rresult.call = "guarded"
  \/ rresult.call = "render" /\ Truthy(options.includeMetadata)

\* the field f of the data of block b, when b is of the type and the field
\* is a string; undefined otherwise
TextField(b, type, f) ==
  IF IsStr(Get(b, "type"), type) /\ IsString(Get(Get(b, "data"), f))
  THEN Get(Get(b, "data"), f) ELSE Undef

\* the fields of block b that are emitted unchanged are in out
VerbatimFields(out, b) ==
  /\ IsString(TextField(b, S_paragraph, "text"))
       => Between(out, "<p>", TextField(b, S_paragraph, "text").s, "</p>")
  /\ IsString(TextField(b, S_quote, "text"))
       => Between(out, "<p>", TextField(b, S_quote, "text").s, "</p>")
  /\ IsString(TextField(b, S_math, "latex"))
       => \E delim \in {"$", "$$"} :
            Between(out, delim, TextField(b, S_math, "latex").s, delim)
  /\ (IsStr(Get(b, "type"), S_list) /\ IsArray(Get(Get(b, "data"), "items")))
       => \A i \in 1..Len(Get(Get(b, "data"), "items").a) :
            IsString(Get(Get(b, "data"), "items").a[i])
              => Between(out, "<li>", Get(Get(b, "data"), "items").a[i].s,
                         "</li>")

\* the fields of block b that are escaped are in out as entities
EscapedFields(out, b) ==
  /\ IsString(TextField(b, S_header, "text"))
       => Between(out, ">", Entities(TextField(b, S_header, "text").s), "</")
  /\ IsNonEmptyString(TextField(b, S_quote, "caption"))
       => Between(out, "\\u2014 ",
                  Entities(TextField(b, S_quote, "caption").s), "</footer>")
  /\ IsString(TextField(b, S_image, "alt"))
       => Between(out, "\" alt=\"", Entities(TextField(b, S_image, "alt").s),
                  "\" loading=\"lazy\">")
  /\ IsNonEmptyString(TextField(b, S_image, "caption"))
       => Between(out, "<span class=\"image-caption\">",
                  Entities(TextField(b, S_image, "caption").s), "</span>")

\* the entities of the text <b>x</b>
E_markup ==
  <<"&", "l", "t", ";", "b", "&", "g", "t", ";", "x",
    "&", "l", "t", ";", "/", "b", "&", "g", "t", ";">>

(***************************************************************************)
(* C17.  Escaping asymmetry: rendering passes header text, quote caption,  *)
(* image alt, image caption, solution title, metadata title and each tag   *)
(* through the escape routine, and emits paragraph text, list items, quote *)
(* text and math latex character for character unchanged; a header with    *)
(* text '<b>x</b>' renders the angle brackets as entities while a          *)
(* paragraph with the same text renders them literally.                    *)
(***************************************************************************)
C17_EscapingAsymmetry ==
  rresult.status = "returned"
    => /\ \A i \in 1..Len(RenderedBlocks) :
            /\ VerbatimFields(rresult.out, RenderedBlocks[i])
            /\ EscapedFields(rresult.out, RenderedBlocks[i])
            /\ TextField(RenderedBlocks[i], S_header, "text") = Str(C_markup)
                 => /\ Emits(rresult.out, E_markup)
                    /\ ~Emits(rresult.out, C_markup)
            /\ TextField(RenderedBlocks[i], S_paragraph, "text") = Str(C_markup)
                 => /\ Emits(rresult.out, C_markup)
                    /\ ~Emits(rresult.out, E_markup)
       /\ rresult.call # "renderBlocks"
            => \A i \in (IF HasSolutions(Get(rarg, "solutions"))
                          THEN 1..Len(Get(rarg, "solutions").a) ELSE {}) :
                 Between(rresult.out, "<h2 class=\"solution-title\">",
                         Entities(Get(Get(rarg, "solutions").a[i], "title").s),
                         "</h2>")
       /\ MetadataRendered
            => /\ Between(rresult.out, "<h1 class=\"content-title\">",
                          Entities(Get(Get(rarg, "metadata"), "title").s), "</h1>")
               /\ \A i \in 1..Len(Get(Get(rarg, "metadata"), "tags").a) :
                    Between(rresult.out, "<span class=\"badge badge-tag\">#",
                            Entities(Get(Get(rarg, "metadata"), "tags").a[i].s),
                            "</span>")

\* renderBlocks returned the markup of a paragraph with the text <b>x</b>
C17_Witness ==
  /\ rresult.call = "renderBlocks"
  /\ rresult.status = "returned"
  /\ Len(rarg.a) = 1
  /\ TextField(rarg.a[1], S_paragraph, "text") = Str(C_markup)
  /\ Emits(rresult.out, C_markup)

\* a block object whose type is none of the six variants
HasUnknownType(b) == b.k = "object" /\ ~isValidBlockType(Get(b, "type"))

\* the rendering of block b alone, or the empty fragment when its type is
\* none of the six variants
AloneOrEmpty(b) ==
  IF HasUnknownType(b) THEN R(<<>>) ELSE renderBlocks(options, Arr(<<b>>))

(***************************************************************************)
(* C18.  For a block array in which some block objects carry a type        *)
(* outside the six variants and every other block is a block of the data   *)
(* model, renderBlocks does not raise, renders each block of an unknown    *)
(* type as the empty fragment, and renders every other block exactly as it *)
(* is rendered alone, in document order.                                   *)
(***************************************************************************)
C18_UnknownTypeIsEmpty ==
  (/\ rresult.call = "renderBlocks"
   /\ \A i \in 1..Len(rarg.a) :
        HasUnknownType(rarg.a[i]) \/ WellFormedBlock(rarg.a[i])
   /\ \E i \in 1..Len(rarg.a) : HasUnknownType(rarg.a[i]))
    => /\ rresult.status = "returned"
       /\ rresult.out
            = JoinR([i \in 1..Len(rarg.a) |-> AloneOrEmpty(rarg.a[i])],
                    <<"\n">>).out

\* the options of the renderer that made the call: renderToHTML(data)
\* constructs one with the defaults
CallOptions == IF rresult.call = "guarded" THEN Construct(Undef) ELSE options

\* the sequences of ss one after the other with sep between them
RECURSIVE SeqJoin(_, _)
SeqJoin(ss, sep) ==
  IF Len(ss) = 0 THEN <<>>
  ELSE IF Len(ss) = 1 THEN ss[1]
  ELSE ss[1] \o sep \o SeqJoin(Tail(ss), sep)

\* the first position of out at which the atoms s begin, 0 if there is none
FirstAt(out, s) ==
  IF Emits(out, s)
  THEN 1 + CHOOSE i \in 0..(Len(out) - Len(s)) :
             /\ SubSeq(out, i + 1, i + Len(s)) = s
             /\ \A j \in 0..(i - 1) : SubSeq(out, j + 1, j + Len(s)) # s
  ELSE 0

\* the number of positions of out at which the atoms s begin
Times(out, s) ==
  Cardinality({i \in 0..(Len(out) - Len(s)) : SubSeq(out, i + 1, i + Len(s)) = s})

\* the statement container holding the rendered statement blocks
StatementContainer ==
  <<"<div class=\"">> \o CallOptions.cssClasses.statement.s \o <<"\">", "\n">>
    \o renderBlocks(CallOptions, Get(rarg, "statement")).out
    \o <<"\n", "</div>">>

\* the sub-container of solution z: its title, then its rendered blocks
SolutionContainer(z) ==
  <<"<div class=\"">> \o CallOptions.cssClasses.solution.s
    \o <<" clearfix\">", "\n          ", "<h2 class=\"solution-title\">">>
    \o Entities(Get(z, "title").s)
    \o <<"</h2>", "\n          ">>
    \o renderBlocks(CallOptions, Get(z, "blocks")).out
    \o <<"\n        ", "</div>">>

\* the solutions container holding one sub-container per solution of the
\* array z, in input order
SolutionsContainer(z) ==
  <<"<div class=\"solutions-container\">", "\n        ",
    "<h2 class=\"solutions-header\">Solutions</h2>", "\n        ", "\n        ">>
    \o SeqJoin([i \in 1..Len(z.a) |-> SolutionContainer(z.a[i])],
               <<"\n      ", "\n", "\n        ">>)
    \o <<"\n      ", "\n      ", "</div>">>

(***************************************************************************)
(* C19.  render emits, inside one wrapper container, in this order: the    *)
(* metadata block if and only if includeMetadata is true (the default);    *)
(* then exactly one statement container holding the rendered statement     *)
(* blocks in document order; then a solutions container if and only if     *)
(* solutions is present and non-empty, holding one sub-container per       *)
(* solution in input order, each with its title followed by its rendered   *)
(* blocks.                                                                 *)
(***************************************************************************)
C19_RenderOrder ==
  (/\ rresult.call \in {"render", "guarded"}
   /\ rresult.status = "returned"
   /\ IsAbsent(Get(rarg, "solutions")) \/ IsArray(Get(rarg, "solutions")))
    => LET out == rresult.out
           z == Get(rarg, "solutions")
           some == IsArray(z) /\ Len(z.a) > 0
           meta == <<"<div class=\"content-metadata\">">>
       IN /\ SubSeq(out, 1, Len(CallOptions.cssClasses.wrapper.s) + 2)
               = <<"<div class=\"">> \o CallOptions.cssClasses.wrapper.s
                   \o <<"\">">>
          /\ out[Len(out)] = "</div>"
          /\ Times(out, meta)
               = IF CallOptions.includeMetadata = Bool(TRUE) THEN 1 ELSE 0
          /\ Times(out, StatementContainer) = 1
          /\ FirstAt(out, meta) < FirstAt(out, StatementContainer)
          /\ Times(out, <<"<div class=\"solutions-container\">">>)
               = IF some THEN 1 ELSE 0
          /\ some => /\ Times(out, SolutionsContainer(z)) = 1
                     /\ FirstAt(out, SolutionsContainer(z))
                          >= FirstAt(out, StatementContainer)
                               + Len(StatementContainer)

\* render returned the markup of content with metadata and two different
\* solutions
C19_Witness ==
  /\ rresult.call = "render"
  /\ rresult.status = "returned"
  /\ CallOptions.includeMetadata = Bool(TRUE)
  /\ IsArray(Get(rarg, "solutions"))
  /\ Len(Get(rarg, "solutions").a) = 2
  /\ Get(rarg, "solutions").a[1] # Get(rarg, "solutions").a[2]
  /\ Times(rresult.out, <<"<h2 class=\"solution-title\">">>) = 2

\* renderBlocks was called on one math block of the data model
OneMathBlock ==
  /\ rresult.call = "renderBlocks"
  /\ Len(rarg.a) = 1
  /\ WellFormedBlock(rarg.a[1])
  /\ IsStr(Get(rarg.a[1], "type"), S_math)

(***************************************************************************)
(* C20.  The mathDelimiters option selects the delimiter convention of     *)
(* math rendering: with the default 'mathjax' a math block's latex is      *)
(* wrapped in $...$ when display is false and in $$...$$ when display is   *)
(* true, and with 'katex' the latex is wrapped in that engine's own,       *)
(* different delimiter pair, so that the two settings render the same math *)
(* block differently.                                                      *)
(***************************************************************************)
C20_MathDelimitersSelect ==
  OneMathBlock
    => LET data == Get(rarg.a[1], "data")
           delim == IF Get(data, "display") = Bool(TRUE) THEN "$$" ELSE "$"
       IN /\ rresult.status = "returned"
          /\ options.mathDelimiters = Str(S_mathjax)
               => Between(rresult.out, delim, Get(data, "latex").s, delim)
          /\ options.mathDelimiters = Str(S_katex)
               => /\ ~Between(rresult.out, delim, Get(data, "latex").s, delim)
                  /\ rresult.out
                       # renderBlocks([options EXCEPT
                                         !.mathDelimiters = Str(S_mathjax)],
                                      rarg).out

\* validate was called on valid metadata and a statement of one element
OneStatementElement ==
  /\ ValidMetadataOnly
  /\ IsArray(Get(content, "statement"))
  /\ Len(Get(content, "statement").a) = 1

\* that element
TheBlock == Get(content, "statement").a[1]

\* what the check of the variant of block b reports at path
VariantCheck(b, path) ==
  LET type == Get(b, "type")
      data == Get(b, "data")
  IN CASE IsStr(type, S_paragraph) -> validateParagraphBlock(data, path, EmptyAcc).errs
       [] IsStr(type, S_header) -> validateHeaderBlock(data, path, EmptyAcc).errs
       [] IsStr(type, S_list) -> validateListBlock(data, path, EmptyAcc).errs
       [] IsStr(type, S_quote) -> validateQuoteBlock(data, path, EmptyAcc).errs
       [] IsStr(type, S_math) -> validateMathBlock(data, path, EmptyAcc).errs
       [] IsStr(type, S_image) -> validateImageBlock(data, path, EmptyAcc).errs

\* null, undefined, a boolean, a number or a string
IsPrimitive(v) == v.k \in {"undefined", "null", "boolean", "number", "string"}

(***************************************************************************)
(* C21.  Single-block validation at path P reports exactly one error and   *)
(* runs no variant-specific check in each of these cases, tried in this    *)
(* order: the block is null or a primitive gives INVALID_TYPE at P; type   *)
(* is missing gives MISSING_REQUIRED at P.type; type is not one of the six *)
(* variants gives INVALID_VALUE at P.type; data is missing, null or a      *)
(* primitive gives INVALID_TYPE at P.data.  Otherwise only the check of    *)
(* the block's own variant runs, and unknown extra fields of data add no   *)
(* error.                                                                  *)
(***************************************************************************)
C21_SingleBlock ==
  (OneStatementElement /\ (IsPrimitive(TheBlock) \/ TheBlock.k = "object"))
    => /\ result.status = "returned"
       /\ PathCodes(result.errors) =
            IF IsPrimitive(TheBlock)
            THEN <<<<"statement[0]", "INVALID_TYPE">>>>
            ELSE IF IsAbsent(Get(TheBlock, "type"))
            THEN <<<<"statement[0].type", "MISSING_REQUIRED">>>>
            ELSE IF ~Includes(<<S_paragraph, S_header, S_list, S_quote, S_math,
                                S_image>>, Get(TheBlock, "type"))
            THEN <<<<"statement[0].type", "INVALID_VALUE">>>>
            ELSE IF IsPrimitive(Get(TheBlock, "data"))
            THEN <<<<"statement[0].data", "INVALID_TYPE">>>>
            ELSE PathCodes(VariantCheck(TheBlock, "statement[0]"))
       /\ WellFormedBlock(TheBlock) => result.errors = <<>>

\* validate was called on valid metadata, a valid statement and solutions
\* whose elements, if it is an array, are primitives or objects
ValidButSolutions ==
  /\ Called
  /\ content.k = "object"
  /\ Get(content, "metadata").k = "object"
  /\ validateMetadata(Get(content, "metadata"), EmptyAcc).errs = <<>>
  /\ WellFormedBlocks(Get(content, "statement"), 1)
  /\ IsArray(Get(content, "solutions"))
       => \A i \in 1..Len(Get(content, "solutions").a) :
            \/ IsPrimitive(Get(content, "solutions").a[i])
            \/ Get(content, "solutions").a[i].k = "object"

\* what validate reports for the title of solution z at path
SolutionTitleErrors(z, path) ==
  validateSolution(Solution(Get(z, "title"), ValidStatement), path, EmptyAcc).errs

\* what is to be reported for the element z of solutions at path
SolutionRule(z, path) ==
  IF IsPrimitive(z) THEN <<<<path, "INVALID_TYPE">>>>
  ELSE PathCodes(SolutionTitleErrors(z, path))
         \o (IF IsAbsent(Get(z, "blocks"))
             THEN <<<<path \o ".blocks", "MISSING_REQUIRED">>>>
             ELSE PathCodes(validateBlocks(Get(z, "blocks"), path \o ".blocks",
                                           EmptyAcc).errs))

\* what is to be reported for solutions
SolutionsRule(z) ==
  IF IsAbsent(z) THEN <<>>
  ELSE IF ~IsArray(z) THEN <<<<"solutions", "INVALID_TYPE">>>>
  ELSE Flatten([i \in 1..Len(z.a) |->
                  SolutionRule(z.a[i],
                               "solutions[" \o ToString(i - 1) \o "]")])

(***************************************************************************)
(* C22.  Solutions validation: solutions undefined or an empty array adds  *)
(* no error; solutions present and not an array (null included) adds       *)
(* exactly one error, INVALID_TYPE at 'solutions'; otherwise every element *)
(* i is validated independently at solutions[i]: a null or primitive       *)
(* element gives INVALID_TYPE at solutions[i], a missing blocks gives      *)
(* MISSING_REQUIRED at solutions[i].blocks, and a present blocks is        *)
(* checked by block-array validation at path solutions[i].blocks.          *)
(***************************************************************************)
C22_SolutionsRule ==
  ValidButSolutions
    => /\ result.status = "returned"
       /\ PathCodes(result.errors) = SolutionsRule(Get(content, "solutions"))

\* the codes of the errors reported at the path, in order
CodesAt(path) ==
  LET at == SelectSeq(result.errors, LAMBDA e : e.path = path)
  IN [i \in 1..Len(at) |-> at[i].code]

\* what is to be reported for a title with the limit
TitleRule(title, limit) ==
  IF ~IsNonEmptyString(title) THEN <<"INVALID_VALUE">>
  ELSE IF Len(title.s) > limit THEN <<"VALUE_TOO_LONG">>
  ELSE <<>>

(***************************************************************************)
(* C23.  For metadata.title (limit 200) and for each solution title (limit *)
(* 100): a value that is not a non-empty string yields exactly one error,  *)
(* INVALID_VALUE at the title's path; a string longer than the limit       *)
(* yields exactly one error, VALUE_TOO_LONG at that path; a string of      *)
(* length 1 up to and including the limit yields no error; one title never *)
(* yields both errors.                                                     *)
(***************************************************************************)
C23_TitleRule ==
  (Called /\ content.k = "object" /\ result.status = "returned")
    => /\ Get(content, "metadata").k = "object"
            => CodesAt("metadata.title")
                 = TitleRule(Get(Get(content, "metadata"), "title"), 200)
       /\ IsArray(Get(content, "solutions"))
            => \A i \in 1..Len(Get(content, "solutions").a) :
                 Get(content, "solutions").a[i].k = "object"
                   => CodesAt("solutions[" \o ToString(i - 1) \o "].title")
                        = TitleRule(Get(Get(content, "solutions").a[i], "title"),
                                    100)

\* validate returned for a solution whose title has 101 characters
C23_Witness ==
  /\ Called
  /\ result.status = "returned"
  /\ IsArray(Get(content, "solutions"))
  /\ Len(Get(content, "solutions").a) = 1
  /\ IsString(Get(Get(content, "solutions").a[1], "title"))
  /\ Len(Get(Get(content, "solutions").a[1], "title").s) = 101
  /\ CodesAt("solutions[0].title") = <<"VALUE_TOO_LONG">>

\* the locator of the i-th element of the array at path
Locator(path, i) == path \o "[" \o ToString(i - 1) \o "]"

\* the locators of the elements of v below path, if v is an array
ElementLocators(v, path) ==
  IF IsArray(v) THEN [i \in 1..Len(v.a) |-> Locator(path, i)] ELSE <<>>

\* the locators of block b at path and of the fields below it, depth first,
\* the fields of data in the order of their declaration
BlockLocators(b, path) ==
  <<path>>
    \o (IF ~CanRead(b) THEN <<>>
        ELSE <<path \o ".type", path \o ".data">>
               \o (IF ~CanRead(Get(b, "data")) THEN <<>>
                   ELSE <<path \o ".data.text", path \o ".data.level",
                          path \o ".data.style", path \o ".data.items">>
                          \o ElementLocators(Get(Get(b, "data"), "items"),
                                             path \o ".data.items")
                          \o <<path \o ".data.latex", path \o ".data.display",
                               path \o ".data.url", path \o ".data.alt",
                               path \o ".data.caption",
                               path \o ".data.alignment",
                               path \o ".data.size">>))

\* the locators of the block array v at path and of its blocks
BlocksLocators(v, path) ==
  <<path>>
    \o (IF ~IsArray(v) THEN <<>>
        ELSE Flatten([i \in 1..Len(v.a) |->
                        BlockLocators(v.a[i], Locator(path, i))]))

\* the locators of metadata m and of its fields
MetadataLocators(m) ==
  IF ~CanRead(m) THEN <<>>
  ELSE <<"metadata.id", "metadata.title", "metadata.contentType",
         "metadata.category", "metadata.difficulty", "metadata.tags">>
         \o ElementLocators(Get(m, "tags"), "metadata.tags")

\* the locators of the solutions z, of their titles and of their blocks
SolutionsLocators(z) ==
  <<"solutions">>
    \o (IF ~IsArray(z) THEN <<>>
        ELSE Flatten([i \in 1..Len(z.a) |->
                        <<Locator("solutions", i)>>
                          \o (IF ~CanRead(z.a[i]) THEN <<>>
                              ELSE <<Locator("solutions", i) \o ".title">>
                                     \o BlocksLocators(
                                          Get(z.a[i], "blocks"),
                                          Locator("solutions", i) \o ".blocks"))]))

\* every place of the content c at which an error can be discovered, in
\* the order of discovery; the two places of 'root' at which a missing
\* section is reported are told apart by the section
DiscoveryOrder(c) ==
  <<"root: metadata">> \o MetadataLocators(Get(c, "metadata"))
    \o <<"root: statement">> \o BlocksLocators(Get(c, "statement"), "statement")
    \o SolutionsLocators(Get(c, "solutions"))

\* the place at which the error e was discovered
PlaceOf(e) ==
  IF e.path # "root" THEN e.path
  ELSE IF e.message = "Missing required property: metadata"
  THEN "root: metadata"
  ELSE IF e.message = "Missing required property: statement"
  THEN "root: statement"
  ELSE "root"

\* the first position of x in the sequence s, 0 if there is none
IndexIn(s, x) ==
  IF \E i \in 1..Len(s) : s[i] = x
  THEN CHOOSE i \in 1..Len(s) : s[i] = x /\ \A j \in 1..(i - 1) : s[j] # x
  ELSE 0

(***************************************************************************)
(* C24.  The errors list is in discovery order: the metadata errors (root  *)
(* MISSING_REQUIRED for metadata, or else id, title, contentType,          *)
(* category, difficulty, tags, then tag elements by ascending index)       *)
(* precede all statement errors (root MISSING_REQUIRED for statement, or   *)
(* else blocks by ascending index and, within a block, fields in           *)
(* declaration order), which precede all solutions errors (solutions by    *)
(* ascending index, title before blocks); entries are never merged or      *)
(* deduplicated.                                                           *)
(***************************************************************************)
C24_DiscoveryOrder ==
  (Called /\ content.k = "object" /\ result.status = "returned")
    => LET order == DiscoveryOrder(content)
           at(i) == IndexIn(order, PlaceOf(result.errors[i]))
       IN /\ \A i \in 1..Len(result.errors) : at(i) > 0
          /\ \A i \in 1..(Len(result.errors) - 1) : at(i) < at(i + 1)
          /\ (~Truthy(Get(content, "metadata")) /\ ~Truthy(Get(content, "statement")))
               => SubSeq(PathCodes(result.errors), 1, 2)
                    = <<<<"root", "MISSING_REQUIRED">>,
                        <<"root", "MISSING_REQUIRED">>>>

\* validate returned errors of the metadata, of the statement and of the
\* solutions
C24_Witness ==
  /\ Called
  /\ result.status = "returned"
  /\ content.k = "object"
  /\ Reported("metadata.tags[10]", "INVALID_TYPE")
  /\ Reported("statement", "ARRAY_EMPTY")
  /\ Reported("solutions[0].blocks[0]", "INVALID_TYPE")
  /\ Len(result.errors) >= 10

\* the seven error codes
ErrorCodes ==
  {"INVALID_TYPE", "MISSING_REQUIRED", "INVALID_VALUE", "VALUE_TOO_LONG",
   "ARRAY_EMPTY", "ARRAY_TOO_LONG", "INVALID_LENGTH"}

\* the elements of the sequence s
Range(s) == {s[i] : i \in 1..Len(s)}

\* the locators of the positions that exist in the nesting of the input c,
\* and of the fields an existing value of it may miss
ExistingLocators(c) ==
  IF ~CanRead(c) THEN {}
  ELSE Range(MetadataLocators(Get(c, "metadata")))
         \cup (IF IsAbsent(Get(c, "statement")) THEN {}
               ELSE Range(BlocksLocators(Get(c, "statement"), "statement")))
         \cup (IF IsAbsent(Get(c, "solutions")) THEN {}
               ELSE Range(SolutionsLocators(Get(c, "solutions"))))

CharacterReference(c) ==
  CASE c = "&" -> <<"&", "a", "m", "p", ";">>
    [] c = "<" -> <<"&", "l", "t", ";">>
    [] c = ">" -> <<"&", "g", "t", ";">>
    [] c = "\"" -> <<"&", "q", "u", "o", "t", ";">>
    [] c = "'" -> <<"&", "#", "0", "3", "9", ";">>
    [] OTHER -> <<c>>

\* the named entity of each of the five characters
NamedEntity(c) ==
  CASE c = "&" -> <<"&", "a", "m", "p", ";">>
    [] c = "<" -> <<"&", "l", "t", ";">>
    [] c = ">" -> <<"&", "g", "t", ";">>
    [] c = "\"" -> <<"&", "q", "u", "o", "t", ";">>
    [] c = "'" -> <<"&", "a", "p", "o", "s", ";">>
    [] OTHER -> <<c>>

\* out has none of the characters < > " ' and each & of it begins one of
\* the references refs
IsEscaped(out, refs) ==
  /\ \A i \in 1..Len(out) : out[i] \notin {"<", ">", "\"", "'"}
  /\ \A i \in 1..Len(out) :
       out[i] = "&"
         => \E r \in refs :
              i + Len(r) - 1 <= Len(out) /\ SubSeq(out, i, i + Len(r) - 1) = r

(***************************************************************************)
(* C26, as amended.  The shared escape routine replaces every occurrence   *)
(* of &, <, >, " with that character's named entity and every occurrence   *)
(* of ' with the numeric character reference &#039;, and leaves every      *)
(* other character unchanged; its output therefore contains none of the    *)
(* characters <, >, ", ' and every & in the output begins one of these     *)
(* five references.                                                        *)
(***************************************************************************)
C26_EscapeRoutine ==
  rresult.call = "escapeHtml"
    => /\ rresult.status = "returned"
       /\ rresult.out
            = Flatten([i \in 1..Len(rarg.s) |-> CharacterReference(rarg.s[i])])
       /\ IsEscaped(rresult.out,
                    {CharacterReference(c) : c \in {"&", "<", ">", "\"", "'"}})

\* escapeHtml returned for a text with an apostrophe and an ampersand
C26_Witness ==
  /\ rresult.call = "escapeHtml"
  /\ rresult.status = "returned"
  /\ \E i, j \in 1..Len(rarg.s) : rarg.s[i] = "'" /\ rarg.s[j] = "&"
  /\ Len(rresult.out) > Len(rarg.s)

(***************************************************************************)
(* C26, as stated.  The shared escape routine replaces every occurrence of *)
(* each of the five characters &, <, >, ", ' with that character's named   *)
(* entity and leaves every other character unchanged; its output           *)
(* therefore contains none of the characters <, >, ", ' and every & in the *)
(* output begins an entity.                                                *)
(***************************************************************************)
C26_NamedEntities ==
  rresult.call = "escapeHtml"
    => /\ rresult.status = "returned"
       /\ rresult.out = Flatten([i \in 1..Len(rarg.s) |-> NamedEntity(rarg.s[i])])
       /\ IsEscaped(rresult.out,
                    {NamedEntity(c) : c \in {"&", "<", ">", "\"", "'"}})

(***************************************************************************)
(* C27.  What a held result shows: its valid flag, and the contents of the *)
(* array its errors field refers to.                                       *)
(***************************************************************************)
Shows(r) == [valid |-> r.valid, errors |-> heap[r.errors]]

\* C27: a ValidationResult returned by an earlier validate call is never
\* changed by later validate calls on the same instance: its errors list and
\* its valid flag keep the values they had when it was returned, although
\* the result holds the very array the validator accumulated into.
C27_EarlierResultsKept ==
  \A k \in 1..Len(held) : Shows(held[k]) = held[k].then

\* an earlier result with errors is held while a later call returned a
\* result without errors and another call returned different errors; the
\* newest result holds the array this.errors refers to
C27_Witness ==
  /\ Len(held) = 3
  /\ held[1].then.errors # <<>>
  /\ held[2].then.errors = <<>>
  /\ held[3].then.errors # <<>>
  /\ held[3].then.errors # held[1].then.errors
  /\ held[3].errors = thisErrors
  /\ held[1].errors # held[3].errors

(***************************************************************************)
(* C28.  The ids that concurrent operations are assigned.                  *)
(***************************************************************************)
\* client p has been assigned the id of its new content
Assigned(p) == ops[p].pc \in {"writing", "done", "failed"}

SameCollection(p, q) ==
  collectionName(ops[p].contentType) = collectionName(ops[q].contentType)

\* the document that client p stored is the document of its id
StoredBy(p) ==
  \E d \in store : /\ d.coll = collectionName(ops[p].contentType)
                   /\ d.id = ops[p].id
                   /\ d.by = p

\* C28: ids stay unique within a content-type collection under concurrency:
\* two saveDraft or publishContent operations that create new content in
\* the same collection are assigned distinct ids by getNextId, so under
\* every interleaving of their reads and writes neither stored document
\* overwrites the other.
C28_UniqueIds ==
  \A p, q \in Clients :
    /\ (p # q /\ Assigned(p) /\ Assigned(q) /\ SameCollection(p, q))
         => ops[p].id # ops[q].id
    /\ ops[p].pc = "done" => StoredBy(p)

(***************************************************************************)
(* C29.  since = "published": publishContent has completed, and the user   *)
(* has changed nothing since they started it.                              *)
(***************************************************************************)
\* C29: after publishContent completes successfully and removes the local
\* draft, the draft stays absent until the user next changes content: an
\* autosave timer armed by a change made before the publish never
\* re-creates the draft after the publish.
C29_DraftStaysAbsent == since = "published" => ~draft.present

(***************************************************************************)
(* C30.  gathered.phase = "cleared": the gatherAllData call was made when  *)
(* the user had done nothing but addSolution and removeSolution calls      *)
(* followed by a confirmed clearAll.                                       *)
(***************************************************************************)
\* C30: after any sequence of addSolution and removeSolution followed by a
\* confirmed clearAll, the next gatherAllData call resolves and returns an
\* empty statement and an empty solutions list.
C30_ClearedEditorIsEmpty ==
  (gathered.status # "none" /\ gathered.phase = "cleared")
    => /\ gathered.status = "resolved"
       /\ gathered.statement = 0
       /\ gathered.solutions = <<>>

====
